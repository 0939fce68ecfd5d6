------------------- MODULE BrowserConsentVerifiers_proofs -------------------
(***************************************************************************)
(* Proofs about the two components through which a credential's holder is  *)
(* seen.  The planner's page with its consent popup: its types, that       *)
(* nothing is booked twice or after the user was told that it was not, and *)
(* that one call at a time only accepted calls run again.  The stand-alone *)
(* verifiers, in the second half: that their verdicts are current.         *)
(***************************************************************************)
EXTENDS BrowserConsent, Verifiers, SequenceTheorems, TLAPS

USE BrowserAssumption

(***************************************************************************)
(* Types.                                                                  *)
(***************************************************************************)
LEMMA MoveType ==
  ASSUME TypeOK, NEW c \in Calls, NEW s \in Progress, Move(c, s)
  PROVE  /\ st' \in [Calls -> Progress]
         /\ st'[c] = s /\ \A d \in Calls \ {c} : st'[d] = st[d]
BY DEF TypeOK, Move

LEMMA PopupType ==
  ASSUME TypeOK, popup # None
  PROVE  popup \in Pages /\ popup.call \in Calls /\ SpOf[popup.call] \in SPs
<1>1. popup \in Pages
  BY DEF TypeOK
<1>. QED BY <1>1 DEF Pages

LEMMA LeaveType ==
  ASSUME TypeOK, LeavePage
  PROVE  granted' \subseteq SPs
BY PopupType DEF TypeOK, LeavePage

LEMMA PostType ==
  ASSUME TypeOK, NEW m \in Messages, inbox' = Append(inbox, m)
  PROVE  inbox' \in Seq(Messages)
BY AppendProperties DEF TypeOK

LEMMA TakeType ==
  ASSUME TypeOK, inbox # <<>>
  PROVE  /\ Head(inbox) \in Messages /\ Head(inbox).call \in Calls
         /\ Tail(inbox) \in Seq(Messages)
<1>1. Head(inbox) \in Messages /\ Tail(inbox) \in Seq(Messages)
  BY HeadTailProperties DEF TypeOK
<1>. QED BY <1>1 DEF Messages

LEMMA WaitType ==
  ASSUME TypeOK, NEW c \in Calls, waiting[c] > 0,
         waiting' = [waiting EXCEPT ![c] = @ - 1]
  PROVE  waiting' \in [Calls -> Nat]
BY DEF TypeOK

LEMMA InitTypeOK == Init => TypeOK
<1>. SUFFICES ASSUME Init PROVE TypeOK
  OBVIOUS
<1>1. inbox \in Seq(Messages)
  BY DEF Init
<1>2. st \in [Calls -> Progress] /\ booked \in [Calls -> Nat] /\ waiting \in [Calls -> Nat]
  BY DEF Init, Progress
<1>3. pages \in 0 .. MaxPages /\ granted \subseteq SPs
  BY DEF Init
<1>. QED BY <1>1, <1>2, <1>3 DEF Init, TypeOK

LEMMA CallTypeOK ==
  ASSUME TypeOK, NEW c \in Calls, Book(c) \/ RunCall(c)
  PROVE  TypeOK'
<1>1. CASE Book(c)
  <2>1. st' \in [Calls -> Progress]
    BY <1>1, MoveType DEF Book, Progress
  <2>2. overlapped' \in BOOLEAN
    BY <1>1 DEF Book, TypeOK, Settled
  <2>. QED BY <1>1, <2>1, <2>2 DEF Book, TypeOK, page
<1>2. CASE Serve(c)
  <2>1. st' \in [Calls -> Progress]
    BY <1>2, MoveType DEF Serve, Progress
  <2>2. booked' \in [Calls -> Nat]
    BY <1>2 DEF Serve, TypeOK
  <2>. QED BY <1>2, <2>1, <2>2 DEF Serve, TypeOK
<1>3. CASE RenderBooking(c) \/ RenderConsent(c)
  <2>1. st' \in [Calls -> Progress]
    BY <1>3, MoveType DEF RenderBooking, RenderConsent, Progress
  <2>. QED BY <1>3, <2>1 DEF RenderBooking, RenderConsent, TypeOK, page
<1>. QED BY <1>1, <1>2, <1>3 DEF RunCall

LEMMA PopupTypeOK ==
  ASSUME TypeOK, User \/ Accepted \/ AcceptFails
  PROVE  TypeOK'
<1>1. CASE OpenConsent
  <2>1. popup' \in Pages /\ pages' \in 0 .. MaxPages
    BY <1>1 DEF OpenConsent, TypeOK, Pages, PageSteps
  <2>. QED BY <1>1, <2>1, LeaveType DEF OpenConsent, TypeOK
<1>2. CASE ClosePopup
  BY <1>2, LeaveType DEF ClosePopup, TypeOK
<1>3. CASE ClickAccept \/ AcceptFails
  <2>1. popup' \in Pages
    BY <1>3, PopupType DEF ClickAccept, AcceptFails, Pages, PageSteps
  <2>. QED BY <1>3, <2>1 DEF ClickAccept, AcceptFails, TypeOK, page
<1>4. CASE ClickDecline
  <2>1. popup' \in Pages \cup {None}
    BY <1>4, PopupType DEF ClickDecline, Pages, PageSteps
  <2>2. inbox' \in Seq(Messages)
    BY <1>4, PopupType, PostType DEF ClickDecline, Messages
  <2>. QED BY <1>4, <2>1, <2>2 DEF ClickDecline, TypeOK
<1>5. CASE Accepted
  <2>1. granted' \subseteq SPs /\ consented' \subseteq Calls
    BY <1>5, PopupType DEF Accepted, TypeOK
  <2>2. inbox' \in Seq(Messages)
    BY <1>5, PopupType, PostType DEF Accepted, Messages
  <2>. QED BY <1>5, <2>1, <2>2 DEF Accepted, TypeOK
<1>. QED BY <1>1, <1>2, <1>3, <1>4, <1>5 DEF User

LEMMA ListenerTypeOK ==
  ASSUME TypeOK, Receive \/ \E c \in Calls : Acknowledged(c) \/ StoreFails(c)
  PROVE  TypeOK'
<1>1. CASE ReceiveAccepted
  <2>1. waiting' \in [Calls -> Nat] /\ inbox' \in Seq(Messages)
    BY <1>1, TakeType DEF ReceiveAccepted, TypeOK
  <2>. QED BY <1>1, <2>1 DEF ReceiveAccepted, TypeOK
<1>2. CASE ReceiveDeclined
  <2>1. inbox' \in Seq(Messages) /\ declined' \subseteq Calls /\ late' \subseteq Calls
    BY <1>2, TakeType DEF ReceiveDeclined, DeclinedCalls, TypeOK
  <2>. QED BY <1>2, <2>1 DEF ReceiveDeclined, TypeOK
<1>3. ASSUME NEW c \in Calls, Acknowledged(c)
      PROVE  TypeOK'
  <2>1. waiting' \in [Calls -> Nat]
    BY <1>3, WaitType DEF Acknowledged
  <2>2. st' \in [Calls -> Progress] /\ retried' \subseteq Calls /\ overlapped' \in BOOLEAN
    BY <1>3, MoveType DEF Acknowledged, TypeOK, Progress
  <2>. QED BY <1>3, <2>1, <2>2 DEF Acknowledged, TypeOK
<1>4. ASSUME NEW c \in Calls, StoreFails(c)
      PROVE  TypeOK'
  <2>1. waiting' \in [Calls -> Nat]
    BY <1>4, WaitType DEF StoreFails
  <2>. QED BY <1>4, <2>1 DEF StoreFails, TypeOK
<1>. QED BY <1>1, <1>2, <1>3, <1>4 DEF Receive

LEMMA NextTypeOK == TypeOK /\ [Next]_vars => TypeOK'
<1>1. TypeOK /\ UNCHANGED vars => TypeOK'
  BY DEF TypeOK, vars
<1>. QED BY <1>1, CallTypeOK, PopupTypeOK, ListenerTypeOK DEF Next

(***************************************************************************)
(* Each variable of the page and of its popup keeps its type.              *)
(***************************************************************************)
THEOREM PageTypeCorrect == Spec => []TypeOK
BY InitTypeOK, NextTypeOK, PTL DEF Spec

(***************************************************************************)
(* The messages that wait for the page.                                    *)
(***************************************************************************)
Posted(m) == \E i \in 1 .. Len(inbox) : inbox[i] = m

LEMMA PostedAppend ==
  ASSUME TypeOK, NEW n \in Messages, inbox' = Append(inbox, n)
  PROVE  \A m \in Messages : Posted(m)' => Posted(m) \/ m = n
<1>1. /\ Len(inbox') = Len(inbox) + 1 /\ Len(inbox) \in Nat
      /\ \A i \in 1 .. Len(inbox) : inbox'[i] = inbox[i]
      /\ inbox'[Len(inbox) + 1] = n
  BY AppendProperties, LenProperties DEF TypeOK
<1>. QED BY <1>1 DEF Posted

LEMMA PostedTail ==
  ASSUME TypeOK, inbox # <<>>, inbox' = Tail(inbox)
  PROVE  /\ Posted(Head(inbox))
         /\ \A m \in Messages : Posted(m)' => Posted(m)
<1>1. /\ Len(inbox) \in Nat /\ Len(inbox) >= 1 /\ Head(inbox) = inbox[1]
      /\ Len(inbox') = Len(inbox) - 1
      /\ \A i \in 1 .. Len(inbox') : inbox'[i] = inbox[i + 1]
  BY HeadTailProperties, LenProperties, EmptySeq DEF TypeOK
<1>. QED BY <1>1 DEF Posted

\* The page, its popup or a message between them is about the call.
Mentioned(c) ==
    \/ pending = c
    \/ popup # None /\ popup.call = c
    \/ \E m \in Messages : Posted(m) /\ m.call = c

\* The popup shows, and posts about, what is pending or what it showed before.
LEMMA PopupMessages ==
  ASSUME TypeOK, User \/ Accepted \/ AcceptFails
  PROVE  /\ \A m \in Messages : Posted(m)' =>
               \/ Posted(m)
               \/ /\ popup # None /\ m.call = popup.call
                  /\ m.type = "accepted" => m.call \in consented'
         /\ \A d \in Calls : Mentioned(d)' => Mentioned(d)
<1>1. pending' = pending
  BY DEF User, OpenConsent, ClosePopup, ClickAccept, ClickDecline, Accepted, AcceptFails, page
<1>2. popup' # None => popup'.call = pending \/ (popup # None /\ popup'.call = popup.call)
  BY PopupType
     DEF User, OpenConsent, ClosePopup, ClickAccept, ClickDecline, Accepted, AcceptFails, Pages
<1>3. \A m \in Messages : Posted(m)' =>
         \/ Posted(m)
         \/ /\ popup # None /\ m.call = popup.call
            /\ m.type = "accepted" => m.call \in consented'
  <2>1. CASE inbox' = inbox
    BY <2>1 DEF Posted
  <2>2. CASE ClickDecline
    <3>. DEFINE n == [type |-> "declined", call |-> popup.call]
    <3>1. n \in Messages /\ inbox' = Append(inbox, n) /\ popup # None
      BY <2>2, PopupType DEF ClickDecline, Messages
    <3>2. n.type # "accepted" /\ n.call = popup.call
      OBVIOUS
    <3>. HIDE DEF n
    <3>. QED BY <3>1, <3>2, PostedAppend
  <2>3. CASE Accepted
    <3>. DEFINE n == [type |-> "accepted", call |-> popup.call]
    <3>1. n \in Messages /\ inbox' = Append(inbox, n) /\ popup # None
      BY <2>3, PopupType DEF Accepted, Messages
    <3>2. n.call = popup.call /\ n.call \in consented'
      BY <2>3 DEF Accepted
    <3>. HIDE DEF n
    <3>. QED BY <3>1, <3>2, PostedAppend
  <2>. QED
    BY <2>1, <2>2, <2>3 DEF User, OpenConsent, ClosePopup, ClickAccept, AcceptFails, page
<1>. QED BY <1>1, <1>2, <1>3 DEF Mentioned

(***************************************************************************)
(* What has booked is over; what is pending waits for consent; what the    *)
(* page, its popup or a message is about waits for it too, or has been run *)
(* again already; and what the user was told was not made stays as it was. *)
(***************************************************************************)
CallInv(c) ==
    /\ booked[c] \in {0, 1}
    /\ booked[c] = 1 => st[c] \in {"served", "booked", "failed"}
    /\ pending = c => st[c] = "consent"
    /\ Mentioned(c) => st[c] = "consent" \/ c \in retried
    /\ c \in retried => st[c] # "idle"
    /\ c \in late => c \in retried
    /\ c \in declined \ late =>
          booked[c] = 0 /\ st[c] \notin InFlight \cup {"idle"} /\ pending # c

\* What CallInv(c) is about, but for what is pending.
Same(c) ==
    /\ st'[c] = st[c] /\ booked'[c] = booked[c]
    /\ c \in retried' <=> c \in retried
    /\ c \in declined' <=> c \in declined
    /\ c \in late' <=> c \in late

LEMMA SameInv ==
  ASSUME NEW c \in Calls, CallInv(c), Same(c), Mentioned(c)' => Mentioned(c),
         pending' # c \/ pending' = pending
  PROVE  CallInv(c)'
BY DEF CallInv, Same

LEMMA InitCallInv == Init => \A c \in Calls : CallInv(c)
<1>. SUFFICES ASSUME Init, NEW c \in Calls PROVE CallInv(c)
  OBVIOUS
<1>1. /\ booked[c] = 0 /\ pending # c /\ popup = None
      /\ c \notin retried /\ c \notin late /\ c \notin declined
  BY DEF Init
<1>2. \A m \in Messages : ~Posted(m)
  BY DEF Init, Posted
<1>. QED BY <1>1, <1>2 DEF CallInv, Mentioned

\* A step of one call, that leaves the popup and the messages alone.
LEMMA OneCall ==
  ASSUME \A d \in Calls : CallInv(d), NEW c \in Calls, CallInv(c)',
         \A d \in Calls \ {c} : Same(d),
         popup' = popup, inbox' = inbox, pending' \in {pending, c, None}
  PROVE  \A d \in Calls : CallInv(d)'
<1>1. \A d \in Calls \ {c} : Mentioned(d)' => Mentioned(d)
  BY DEF Mentioned, Posted
<1>. QED BY <1>1, SameInv

LEMMA CallKeepsCallInv ==
  ASSUME TypeOK, \A d \in Calls : CallInv(d), NEW c \in Calls, Book(c) \/ RunCall(c)
  PROVE  \A d \in Calls : CallInv(d)'
<1>1. /\ popup' = popup /\ inbox' = inbox /\ pending' \in {pending, c, None}
      /\ retried' = retried /\ declined' = declined /\ late' = late
      /\ \A d \in Calls : pending' # d => (Mentioned(d)' => Mentioned(d))
  BY DEF Book, RunCall, Serve, RenderBooking, RenderConsent, page, Mentioned, Posted
<1>2. CASE Book(c)
  <2>1. st'[c] = "posted" /\ \A d \in Calls \ {c} : st'[d] = st[d]
    BY <1>2, MoveType DEF Book, Progress
  <2>2. booked' = booked /\ pending' = pending /\ st[c] = "idle"
    BY <1>2 DEF Book, page
  <2>3. ~Mentioned(c) /\ c \notin retried /\ pending # c
    BY <2>2 DEF CallInv
  <2>4. CallInv(c)'
    BY <1>1, <2>1, <2>2, <2>3 DEF CallInv
  <2>. QED BY <1>1, <2>1, <2>2, <2>4, OneCall DEF Same
<1>3. CASE Serve(c)
  <2>1. /\ st'[c] \in {"served", "refused", "failed"}
        /\ booked'[c] = booked[c] \/ (booked'[c] = booked[c] + 1 /\ st'[c] # "refused")
        /\ \A d \in Calls \ {c} : st'[d] = st[d] /\ booked'[d] = booked[d]
    <3>1. /\ st'[c] \in {"served", "refused", "failed"}
          /\ \A d \in Calls \ {c} : st'[d] = st[d]
      BY <1>3, MoveType DEF Serve, Progress
    <3>2. \/ booked' = booked
          \/ booked' = [booked EXCEPT ![c] = @ + 1] /\ (Move(c, "served") \/ Move(c, "failed"))
      BY <1>3 DEF Serve
    <3>. QED BY <3>1, <3>2, MoveType DEF TypeOK, Progress
  <2>2. /\ booked[c] = 0 /\ pending # c /\ pending' = pending /\ c \notin declined \ late
        /\ Mentioned(c) => c \in retried
    BY <1>3 DEF Serve, CallInv, InFlight
  <2>3. CallInv(c)'
    BY <1>1, <2>1, <2>2 DEF CallInv
  <2>. QED BY <1>1, <2>1, <2>3, OneCall DEF Same
<1>4. CASE RenderBooking(c)
  <2>1. st'[c] = "booked" /\ \A d \in Calls \ {c} : st'[d] = st[d]
    BY <1>4, MoveType DEF RenderBooking, Progress
  <2>2. booked' = booked /\ pending' = pending /\ st[c] = "served"
    BY <1>4 DEF RenderBooking, page
  <2>3. CallInv(c)'
    BY <1>1, <2>1, <2>2 DEF CallInv, InFlight
  <2>. QED BY <1>1, <2>1, <2>2, <2>3, OneCall DEF Same
<1>5. CASE RenderConsent(c)
  <2>1. st'[c] = "consent" /\ \A d \in Calls \ {c} : st'[d] = st[d]
    BY <1>5, MoveType DEF RenderConsent, Progress
  <2>2. booked' = booked /\ pending' = c /\ st[c] = "refused"
    BY <1>5 DEF RenderConsent, page
  <2>3. CallInv(c)'
    BY <1>1, <2>1, <2>2 DEF CallInv, InFlight
  <2>. QED BY <1>1, <2>1, <2>2, <2>3, OneCall DEF Same
<1>. QED BY <1>2, <1>3, <1>4, <1>5 DEF RunCall

LEMMA ListenerKeepsCallInv ==
  ASSUME TypeOK, \A d \in Calls : CallInv(d),
         Receive \/ \E c \in Calls : Acknowledged(c) \/ StoreFails(c)
  PROVE  \A d \in Calls : CallInv(d)'
<1>1. \A d \in Calls : Mentioned(d)' => Mentioned(d)
  <2>1. popup' = popup /\ pending' \in {pending, None}
    BY DEF Receive, ReceiveAccepted, ReceiveDeclined, Acknowledged, StoreFails
  <2>2. \A m \in Messages : Posted(m)' => Posted(m)
    BY PostedTail DEF Receive, ReceiveAccepted, ReceiveDeclined, Acknowledged, StoreFails, Posted
  <2>. QED BY <2>1, <2>2 DEF Mentioned, TypeOK
<1>2. CASE ReceiveAccepted
  BY <1>1, <1>2, SameInv DEF ReceiveAccepted, Same
<1>3. CASE ReceiveDeclined
  <2>1. \A d \in DeclinedCalls : d \in Calls /\ Mentioned(d)
    <3>1. inbox # <<>> /\ inbox' = Tail(inbox)
      BY <1>3 DEF ReceiveDeclined
    <3>2. Head(inbox) \in Messages /\ Head(inbox).call \in Calls /\ Posted(Head(inbox))
      BY <3>1, TakeType, PostedTail
    <3>. QED BY <3>2 DEF DeclinedCalls, Mentioned, TypeOK
  <2>2. ASSUME NEW d \in Calls, d \in DeclinedCalls
        PROVE  CallInv(d)'
    <3>1. /\ st' = st /\ booked' = booked /\ retried' = retried /\ pending' = None
          /\ d \in late' <=> d \in late \/ booked[d] > 0 \/ st[d] \in InFlight
      BY <1>3, <2>2 DEF ReceiveDeclined
    <3>2. st[d] = "consent" \/ d \in retried
      BY <2>1, <2>2 DEF CallInv
    <3>. QED BY <1>1, <3>1, <3>2 DEF CallInv, InFlight
  <2>3. ASSUME NEW d \in Calls, d \notin DeclinedCalls
        PROVE  CallInv(d)'
    <3>1. Same(d) /\ pending' # d
      BY <1>3, <2>3 DEF ReceiveDeclined, Same
    <3>. QED BY <1>1, <3>1, SameInv
  <2>. QED BY <2>2, <2>3
<1>4. ASSUME NEW c \in Calls, Acknowledged(c)
      PROVE  \A d \in Calls : CallInv(d)'
  <2>1. CASE pending = None
    BY <1>1, <1>4, <2>1, SameInv DEF Acknowledged, Same
  <2>2. CASE pending \in Calls
    <3>1. /\ st'[pending] = "posted" /\ \A d \in Calls \ {pending} : st'[d] = st[d]
          /\ retried' = retried \cup {pending} /\ pending' = None
          /\ booked' = booked /\ declined' = declined /\ late' = late
      BY <1>4, <2>2, MoveType DEF Acknowledged, Progress
    <3>2. \A d \in Calls : d # pending => CallInv(d)'
      BY <1>1, <3>1, SameInv DEF Same
    <3>3. CallInv(pending)
      BY <2>2
    <3>4. ASSUME NEW d \in Calls, d = pending
          PROVE  CallInv(d)'
      BY <3>1, <3>3, <3>4 DEF CallInv
    <3>. QED BY <3>2, <3>4
  <2>. QED BY <2>1, <2>2 DEF TypeOK
<1>5. ASSUME NEW c \in Calls, StoreFails(c)
      PROVE  \A d \in Calls : CallInv(d)'
  BY <1>1, <1>5, SameInv DEF StoreFails, Same
<1>. QED BY <1>2, <1>3, <1>4, <1>5 DEF Receive

LEMMA NextCallInv ==
  ASSUME TypeOK, \A c \in Calls : CallInv(c), [Next]_vars
  PROVE  \A c \in Calls : CallInv(c)'
<1>1. CASE User \/ Accepted \/ AcceptFails
  <2>1. \A d \in Calls : Same(d) /\ pending' = pending
    BY <1>1
       DEF User, OpenConsent, ClosePopup, ClickAccept, ClickDecline, Accepted, AcceptFails,
           page, Same
  <2>. QED BY <1>1, <2>1, PopupMessages, SameInv
<1>2. CASE UNCHANGED vars
  <2>1. \A d \in Calls : Same(d) /\ pending' = pending /\ (Mentioned(d)' => Mentioned(d))
    BY <1>2 DEF vars, Same, Mentioned, Posted
  <2>. QED BY <2>1, SameInv
<1>. QED BY <1>1, <1>2, CallKeepsCallInv, ListenerKeepsCallInv DEF Next

LEMMA Invariance == Spec => [](TypeOK /\ \A c \in Calls : CallInv(c))
<1>1. /\ Init => TypeOK /\ \A c \in Calls : CallInv(c)
      /\ TypeOK /\ (\A c \in Calls : CallInv(c)) /\ [Next]_vars
            => (TypeOK /\ \A c \in Calls : CallInv(c))'
  BY InitTypeOK, NextTypeOK, InitCallInv, NextCallInv
<1>. QED BY <1>1, PTL DEF Spec

(***************************************************************************)
(* runCall and the message listener: whatever is clicked and posted in     *)
(* whatever order, over any number of calls and pages, no call books twice *)
(***************************************************************************)
THEOREM BooksOnce == Spec => []BookedAtMostOnce
<1>1. ASSUME \A c \in Calls : CallInv(c)
      PROVE  BookedAtMostOnce
  <2>1. \A c \in Calls : booked[c] \in {0, 1}
    BY <1>1 DEF CallInv
  <2>2. \A n \in {0, 1} : n <= 1
    OBVIOUS
  <2>. QED BY <2>1, <2>2 DEF BookedAtMostOnce
<1>. QED BY <1>1, Invariance, PTL

(***************************************************************************)
(* and none books, or is about to, after the user was told that it was not *)
(* made, unless it had been run again by then, for an acceptance.          *)
(***************************************************************************)
THEOREM DeclinedIsFinal == Spec => []DeclinedStaysUnbooked
<1>1. TypeOK /\ (\A c \in Calls : CallInv(c)) => DeclinedStaysUnbooked
  BY DEF TypeOK, CallInv, DeclinedStaysUnbooked, InFlight
<1>. QED BY <1>1, Invariance, PTL

(***************************************************************************)
(* One call at a time: everything under way is about one call, and what is *)
(* on its way to an acknowledgement comes from a page that was accepted.   *)
(***************************************************************************)
Concerns(c) ==
    \/ st[c] \in InFlight
    \/ Mentioned(c)
    \/ waiting[c] > 0

OnlyOne == ~overlapped => \A c, d \in Calls : Concerns(c) /\ Concerns(d) => c = d

FromAccepted ==
    /\ \A m \in Messages : Posted(m) /\ m.type = "accepted" => m.call \in consented
    /\ \A c \in Calls : waiting[c] > 0 => c \in consented

PageInv == OnlyOne /\ FromAccepted /\ RetryFollowsConsent

LEMMA NobodyNew ==
  ASSUME OnlyOne, overlapped' = overlapped, \A c \in Calls : Concerns(c)' => Concerns(c)
  PROVE  OnlyOne'
BY DEF OnlyOne

LEMMA InitPageInv == Init => PageInv
<1>. SUFFICES ASSUME Init PROVE PageInv
  OBVIOUS
<1>1. \A m \in Messages : ~Posted(m)
  BY DEF Init, Posted
<1>2. \A c \in Calls : ~Concerns(c) /\ waiting[c] = 0
  <2>. SUFFICES ASSUME NEW c \in Calls PROVE ~Concerns(c) /\ waiting[c] = 0
    OBVIOUS
  <2>1. st[c] = "idle" /\ pending # c /\ popup = None /\ waiting[c] = 0
    BY DEF Init
  <2>. QED BY <1>1, <2>1 DEF Concerns, Mentioned, InFlight
<1>. QED BY <1>1, <1>2 DEF Init, PageInv, OnlyOne, FromAccepted, RetryFollowsConsent

LEMMA CallPageInv ==
  ASSUME TypeOK, PageInv, NEW c \in Calls, Book(c) \/ RunCall(c)
  PROVE  PageInv'
<1>1. /\ inbox' = inbox /\ waiting' = waiting /\ popup' = popup
      /\ retried' = retried /\ consented' = consented
      /\ pending' = pending \/ (pending' = c /\ st[c] \in InFlight)
      /\ \A d \in Calls \ {c} : st'[d] = st[d]
      /\ overlapped' = overlapped \/ st[c] = "idle"
  BY MoveType DEF Book, RunCall, Serve, RenderBooking, RenderConsent, page, Progress, InFlight
<1>2. FromAccepted'
  BY <1>1 DEF PageInv, FromAccepted, Posted
<1>3. \A d \in Calls \ {c} : Concerns(d)' => Concerns(d)
  BY <1>1 DEF Concerns, Mentioned, Posted
<1>4. CASE Book(c)
  <2>1. ~overlapped' => ~overlapped /\ Settled
    BY <1>4 DEF Book, TypeOK
  <2>2. Settled => \A d \in Calls : ~Concerns(d)
    <3>1. Settled => \A m \in Messages : ~Posted(m)
      BY DEF Settled, Posted
    <3>. QED BY <3>1 DEF Settled, Concerns, Mentioned
  <2>3. OnlyOne'
    BY <1>3, <2>1, <2>2 DEF OnlyOne
  <2>. QED BY <1>1, <1>2, <2>1, <2>3 DEF PageInv, RetryFollowsConsent
<1>5. CASE RunCall(c)
  <2>1. st[c] \in InFlight /\ overlapped' = overlapped
    BY <1>5 DEF RunCall, Serve, RenderBooking, RenderConsent, InFlight
  <2>2. OnlyOne'
    BY <1>3, <2>1, NobodyNew DEF PageInv, Concerns
  <2>. QED BY <1>1, <1>2, <2>1, <2>2 DEF PageInv, RetryFollowsConsent
<1>. QED BY <1>4, <1>5

LEMMA PopupPageInv ==
  ASSUME TypeOK, PageInv, User \/ Accepted \/ AcceptFails
  PROVE  PageInv'
<1>1. /\ st' = st /\ waiting' = waiting /\ retried' = retried
      /\ overlapped' = overlapped /\ consented \subseteq consented'
  BY DEF User, OpenConsent, ClosePopup, ClickAccept, ClickDecline, Accepted, AcceptFails, page
<1>2. \A d \in Calls : Concerns(d)' => Concerns(d)
  BY <1>1, PopupMessages DEF Concerns
<1>3. FromAccepted'
  BY <1>1, PopupMessages DEF PageInv, FromAccepted
<1>. QED BY <1>1, <1>2, <1>3, NobodyNew DEF PageInv, RetryFollowsConsent

LEMMA ListenerPageInv ==
  ASSUME TypeOK, PageInv, Receive \/ \E c \in Calls : Acknowledged(c) \/ StoreFails(c)
  PROVE  PageInv'
<1>1. CASE Receive
  <2>1. /\ inbox # <<>> /\ inbox' = Tail(inbox) /\ Head(inbox) \in Messages
        /\ st' = st /\ popup' = popup /\ retried' = retried /\ consented' = consented
        /\ overlapped' = overlapped /\ pending' \in {pending, None}
    BY <1>1, TakeType DEF Receive, ReceiveAccepted, ReceiveDeclined
  <2>2. Posted(Head(inbox)) /\ \A m \in Messages : Posted(m)' => Posted(m)
    BY <2>1, PostedTail
  <2>3. \A d \in Calls : waiting'[d] > 0 =>
            \/ waiting[d] > 0
            \/ Head(inbox).type = "accepted" /\ Head(inbox).call = d
    BY <1>1, TakeType DEF Receive, ReceiveAccepted, ReceiveDeclined, TypeOK
  <2>4. \A d \in Calls : Concerns(d)' => Concerns(d)
    BY <2>1, <2>2, <2>3 DEF Concerns, Mentioned, TypeOK
  <2>5. FromAccepted'
    BY <2>1, <2>2, <2>3 DEF PageInv, FromAccepted
  <2>. QED BY <2>1, <2>4, <2>5, NobodyNew DEF PageInv, RetryFollowsConsent
<1>2. ASSUME NEW c \in Calls, Acknowledged(c) \/ StoreFails(c)
      PROVE  PageInv'
  <2>1. /\ inbox' = inbox /\ popup' = popup /\ consented' = consented
        /\ overlapped' = overlapped /\ pending' \in {pending, None}
    BY <1>2 DEF Acknowledged, StoreFails
  <2>2. waiting[c] > 0 /\ \A d \in Calls : waiting'[d] > 0 => waiting[d] > 0
    BY <1>2 DEF Acknowledged, StoreFails, TypeOK
  <2>3. \A d \in Calls : st'[d] = st[d] \/ d = pending
    BY <1>2, MoveType DEF Acknowledged, StoreFails, Move, TypeOK, Progress
  <2>4. \A d \in Calls : Concerns(d)' => Concerns(d)
    BY <2>1, <2>2, <2>3 DEF Concerns, Mentioned, Posted
  <2>5. FromAccepted'
    BY <2>1, <2>2 DEF PageInv, FromAccepted, Posted
  <2>6. retried' \subseteq retried \cup ({pending} \ {None})
    BY <1>2 DEF Acknowledged, StoreFails
  <2>7. ~overlapped /\ pending # None => pending = c /\ c \in consented
    BY <2>2 DEF PageInv, OnlyOne, Concerns, Mentioned, FromAccepted, TypeOK
  <2>. QED BY <2>1, <2>4, <2>5, <2>6, <2>7, NobodyNew DEF PageInv, RetryFollowsConsent
<1>. QED BY <1>1, <1>2

LEMMA NextPageInv == TypeOK /\ PageInv /\ [Next]_vars => PageInv'
<1>1. TypeOK /\ PageInv /\ UNCHANGED vars => PageInv'
  BY DEF vars, PageInv, OnlyOne, Concerns, Mentioned, FromAccepted, Posted, RetryFollowsConsent
<1>. QED BY <1>1, CallPageInv, PopupPageInv, ListenerPageInv DEF Next

(***************************************************************************)
(* The message listener: as long as one booking is settled before the next *)
(* is begun, the call that runs again is the one whose page was accepted,  *)
(* although the listener looks at nothing but what is pending.             *)
(***************************************************************************)
THEOREM OnlyAcceptedRetried == Spec => []RetryFollowsConsent
<1>1. Init => TypeOK /\ PageInv
  BY InitTypeOK, InitPageInv
<1>2. TypeOK /\ PageInv /\ [Next]_vars => (TypeOK /\ PageInv)'
  BY NextTypeOK, NextPageInv
<1>3. PageInv => RetryFollowsConsent
  BY DEF PageInv
<1>. QED BY <1>1, <1>2, <1>3, PTL DEF Spec
-----------------------------------------------------------------------------
(***************************************************************************)
(* The verifiers, for every number of presentations and requests, all      *)
(* lifetimes and any bounds of the clock and of restarts.                  *)
(***************************************************************************)

(***************************************************************************)
(* A presentation's lifetime is fixed when it is made; a verdict is cached *)
(* exactly as long.                                                        *)
(***************************************************************************)
CacheIsLifetime ==
    \A v \in VPs : cache[v] # Absent => vp[v] # Absent /\ cache[v] = vp[v].until

\* What a request found at its beginning is still so.
FoundStillHolds ==
    \A r \in Requests : req[r] # Absent =>
        /\ vp[req[r].vp] # Absent
        /\ req[r].revoked => req[r].vp \in gone
        /\ req[r].late => Expired(vp[req[r].vp].until)

\* What the steps behind a request have established.
Established ==
    \A r \in Requests : req[r] # Absent =>
        /\ req[r].at \in {"holder", "issuer"} => On(r, "self") /\ ~req[r].late
        /\ req[r].at = "status" => req[r].path \in {"self", "status"} /\ (req[r].late => On(r, "status"))
        /\ req[r].at \in {"accepted", "fetchKey", "token", "granted"} =>
            /\ req[r].revoked => req[r].hit
            /\ req[r].late => On(r, "status")

IInv == VerifiersTypeOK /\ CacheIsLifetime /\ FoundStillHolds /\ Established

LEMMA InitIInv == VerifiersInit => IInv
<1>. SUFFICES ASSUME VerifiersInit PROVE IInv
  OBVIOUS
<1>1. VerifiersTypeOK
  BY VerifierAssumption DEF VerifiersInit, VerifiersTypeOK
<1>. QED
  BY <1>1 DEF VerifiersInit, IInv, CacheIsLifetime, FoundStillHolds, Established


(***************************************************************************)
(* Most steps move one request on, and change nothing else.                *)
(***************************************************************************)
LEMMA MovesOn ==
  ASSUME IInv, NEW r \in Requests, req[r] # Absent, NEW q \in Request,
         req' = [req EXCEPT ![r] = q],
         q.path = req[r].path, q.vp = req[r].vp, q.late = req[r].late,
         q.revoked = req[r].revoked, q.hit = req[r].hit,
         q.at \in {"holder", "issuer"} => q.path = "self" /\ ~q.late,
         q.at = "status" => q.path \in {"self", "status"} /\ (q.late => q.path = "status"),
         q.at \in {"accepted", "fetchKey", "token", "granted"} =>
            (q.revoked => q.hit) /\ (q.late => q.path = "status"),
         UNCHANGED <<now, vp, gone, key>>,
         cache' \in [VPs -> Nat \cup {Absent}], CacheIsLifetime'
  PROVE  IInv'
<1>1. VerifiersTypeOK'
  BY DEF IInv, VerifiersTypeOK
<1>2. \A s \in Requests : req'[s] = IF s = r THEN q ELSE req[s]
  BY DEF IInv, VerifiersTypeOK
<1>3. FoundStillHolds'
  BY <1>2 DEF IInv, FoundStillHolds, Expired
<1>4. Established'
  BY <1>2 DEF IInv, Established, On
<1>. QED
  BY <1>1, <1>3, <1>4 DEF IInv

LEMMA RequestType ==
  ASSUME VerifiersTypeOK, NEW r \in Requests, req[r] # Absent
  PROVE  /\ req[r] \in Request
         /\ req[r].vp \in VPs
         /\ \A step \in Steps : [req[r] EXCEPT !.at = step] \in Request
BY DEF VerifiersTypeOK, Request

\* A step that only changes where the request is.
LEMMA GoesTo ==
  ASSUME IInv, NEW r \in Requests, req[r] # Absent, NEW step \in Steps, Goto(r, step),
         step \in {"holder", "issuer"} => On(r, "self") /\ ~req[r].late,
         step = "status" => req[r].path \in {"self", "status"} /\ (req[r].late => On(r, "status")),
         step \in {"accepted", "fetchKey", "token", "granted"} =>
            (req[r].revoked => req[r].hit) /\ (req[r].late => On(r, "status")),
         UNCHANGED <<now, vp, gone, key>>,
         cache' \in [VPs -> Nat \cup {Absent}], CacheIsLifetime'
  PROVE  IInv'
<1>. DEFINE q == [req[r] EXCEPT !.at = step]
<1>1. q \in Request /\ req[r] \in Request
  BY RequestType DEF IInv
<1>2. req' = [req EXCEPT ![r] = q]
  BY DEF Goto
<1>3. /\ q.path = req[r].path /\ q.vp = req[r].vp /\ q.late = req[r].late
      /\ q.revoked = req[r].revoked /\ q.hit = req[r].hit /\ q.at = step
  BY <1>1 DEF Request
<1>. HIDE DEF q
<1>. QED
  BY <1>1, <1>2, <1>3, MovesOn DEF On

\* A presentation that is valid now was so when a request for it began.
LEMMA ValidWas ==
  ASSUME IInv, NEW r \in Requests, req[r] # Absent, Valid(req[r].vp)
  PROVE  ~req[r].revoked /\ ~req[r].late
BY DEF IInv, FoundStillHolds, Valid

LEMMA UnchangedCache ==
  ASSUME IInv, UNCHANGED <<vp, cache>>
  PROVE  cache' \in [VPs -> Nat \cup {Absent}] /\ CacheIsLifetime'
BY DEF IInv, VerifiersTypeOK, CacheIsLifetime

LEMMA TokenType ==
  ASSUME IInv
  PROVE  now + TokenLife \in Nat /\ key \in 0 .. MaxKeys
BY VerifierAssumption DEF IInv, VerifiersTypeOK

LEMMA RequestStepKeepsIInv ==
  ASSUME IInv, NEW r \in Requests, RequestStep(r)
  PROVE  IInv'
<1>1. CASE Verified(r)
  <2>1. req[r] # Absent /\ UNCHANGED <<now, vp, gone, key, cache>>
    BY <1>1 DEF Verified, At
  <2>2. ~req[r].revoked /\ ~req[r].late
    BY <1>1, <2>1, ValidWas DEF Verified
  <2>3. CASE Goto(r, "accepted")
    BY <2>1, <2>2, <2>3, GoesTo, UnchangedCache DEF Steps
  <2>4. CASE req' = [req EXCEPT ![r].at = "fetchKey", ![r].key = key, ![r].until = now + TokenLife]
    <3>. DEFINE q == [req[r] EXCEPT !.at = "fetchKey", !.key = key, !.until = now + TokenLife]
    <3>1. req[r] \in Request
      BY <2>1, RequestType DEF IInv
    <3>2. q \in Request
      BY <3>1, TokenType DEF Request, Steps
    <3>3. req' = [req EXCEPT ![r] = q]
      BY <2>4
    <3>4. /\ q.path = req[r].path /\ q.vp = req[r].vp /\ q.late = req[r].late
          /\ q.revoked = req[r].revoked /\ q.hit = req[r].hit /\ q.at = "fetchKey"
      BY <3>1 DEF Request
    <3>. HIDE DEF q
    <3>. QED
      BY <2>1, <2>2, <3>2, <3>3, <3>4, MovesOn, UnchangedCache
  <2>. QED BY <1>1, <2>3, <2>4 DEF Verified
<1>2. CASE Refused(r)
  BY <1>2, GoesTo, UnchangedCache DEF Refused, At, Steps
<1>3. CASE LocalSession(r)
  <2>1. req[r] # Absent /\ UNCHANGED <<now, vp, gone, key, cache>>
    BY <1>3 DEF LocalSession, At
  <2>2. ~req[r].revoked /\ ~req[r].late
    BY <1>3, <2>1, ValidWas DEF LocalSession
  <2>. DEFINE q == [req[r] EXCEPT !.at = "token", !.until = now + TokenLife]
  <2>3. req[r] \in Request
    BY <2>1, RequestType DEF IInv
  <2>4. q \in Request
    BY <2>3, TokenType DEF Request, Steps
  <2>5. req' = [req EXCEPT ![r] = q]
    BY <1>3 DEF LocalSession
  <2>6. /\ q.path = req[r].path /\ q.vp = req[r].vp /\ q.late = req[r].late
        /\ q.revoked = req[r].revoked /\ q.hit = req[r].hit /\ q.at = "token"
    BY <2>3 DEF Request
  <2>. HIDE DEF q
  <2>. QED
    BY <2>1, <2>2, <2>4, <2>5, <2>6, MovesOn, UnchangedCache
<1>4. CASE SessionKey(r)
  <2>1. req[r] # Absent /\ req[r].at = "fetchKey" /\ UNCHANGED <<now, vp, gone, key, cache>>
    BY <1>4 DEF SessionKey, At
  <2>2. Goto(r, "token") \/ Goto(r, "denied")
    BY <1>4 DEF SessionKey
  <2>3. (req[r].revoked => req[r].hit) /\ (req[r].late => On(r, "status"))
    BY <2>1 DEF IInv, Established
  <2>. QED BY <2>1, <2>2, <2>3, GoesTo, UnchangedCache DEF Steps
<1>5. CASE TokenVerified(r)
  <2>1. (req[r].revoked => req[r].hit) /\ (req[r].late => On(r, "status"))
    BY <1>5 DEF IInv, Established, TokenVerified, At
  <2>. QED BY <1>5, <2>1, GoesTo, UnchangedCache DEF TokenVerified, At, Steps
<1>6. CASE HolderResolved(r)
  <2>1. On(r, "self") /\ ~req[r].late
    BY <1>6 DEF IInv, Established, HolderResolved, At
  <2>. QED BY <1>6, <2>1, GoesTo, UnchangedCache DEF HolderResolved, At, Steps
<1>7. CASE IssuerResolved(r)
  <2>1. On(r, "self") /\ ~req[r].late
    BY <1>7 DEF IInv, Established, IssuerResolved, At
  <2>. QED BY <1>7, <2>1, GoesTo, UnchangedCache DEF IssuerResolved, At, Steps, On
<1>8. CASE StatusRead(r)
  <2>1. req[r].late => On(r, "status")
    BY <1>8 DEF IInv, Established, StatusRead, At
  <2>2. ~req[r].revoked
    BY <1>8 DEF IInv, FoundStillHolds, StatusRead, At, Bit
  <2>. QED BY <1>8, <2>1, <2>2, GoesTo, UnchangedCache DEF StatusRead, At, Steps
<1>9. CASE Accept(r)
  <2>1. (req[r].revoked => req[r].hit) /\ (req[r].late => On(r, "status"))
    BY <1>9 DEF IInv, Established, Accept, At
  <2>. QED BY <1>9, <2>1, GoesTo, UnchangedCache DEF Accept, At, Steps
<1>10. CASE AcceptAndCache(r)
  <2>1. (req[r].revoked => req[r].hit) /\ (req[r].late => On(r, "status"))
    BY <1>10 DEF IInv, Established, AcceptAndCache, At
  <2>2. req[r] # Absent /\ req[r].vp \in VPs /\ vp[req[r].vp] # Absent
    BY <1>10, RequestType DEF IInv, FoundStillHolds, AcceptAndCache, At
  <2>3. vp[req[r].vp].until \in Nat
    BY <2>2 DEF IInv, VerifiersTypeOK
  <2>4. cache' \in [VPs -> Nat \cup {Absent}]
    BY <1>10, <2>2, <2>3 DEF IInv, VerifiersTypeOK, AcceptAndCache
  <2>5. CacheIsLifetime'
    BY <1>10, <2>2, <2>3 DEF IInv, VerifiersTypeOK, CacheIsLifetime, AcceptAndCache
  <2>. QED BY <1>10, <2>1, <2>2, <2>4, <2>5, GoesTo DEF AcceptAndCache, At, Steps
<1>11. CASE Denies(r)
  BY <1>11, GoesTo, UnchangedCache DEF Denies, Steps
<1>. QED
  BY <1>1, <1>2, <1>3, <1>4, <1>5, <1>6, <1>7, <1>8, <1>9, <1>10, <1>11 DEF RequestStep

(***************************************************************************)
(* The other steps.                                                        *)
(***************************************************************************)
LEMMA TickKeepsIInv == IInv /\ Tick => IInv'
<1>. SUFFICES ASSUME IInv, Tick PROVE IInv'
  OBVIOUS
<1>1. now' \in 0 .. MaxTime /\ now \in Nat /\ now' = now + 1
  BY VerifierAssumption DEF IInv, VerifiersTypeOK, Tick
<1>2. VerifiersTypeOK' /\ CacheIsLifetime' /\ Established'
  BY <1>1 DEF IInv, VerifiersTypeOK, Tick, CacheIsLifetime, Established, On
<1>3. ASSUME NEW r \in Requests, req[r] # Absent, req[r].late
      PROVE  Expired(vp[req[r].vp].until)'
  <2>1. /\ vp[req[r].vp] # Absent /\ req[r].vp \in VPs
        /\ Expired(vp[req[r].vp].until)
    BY <1>3, RequestType DEF IInv, FoundStillHolds
  <2>2. vp[req[r].vp].until \in Nat
    BY <2>1 DEF IInv, VerifiersTypeOK
  <2>. QED BY <1>1, <2>1, <2>2 DEF Expired, Tick
<1>4. FoundStillHolds'
  BY <1>3 DEF IInv, FoundStillHolds, Tick
<1>. QED
  BY <1>2, <1>4 DEF IInv

LEMMA MintKeepsIInv ==
  ASSUME IInv, NEW v \in VPs, Mint(v)
  PROVE  IInv'
<1>1. now + VpLife \in Nat /\ now + VcLife \in Nat
  BY VerifierAssumption DEF IInv, VerifiersTypeOK
<1>2. \A w \in VPs : w # v => vp'[w] = vp[w]
  BY DEF IInv, VerifiersTypeOK, Mint
<1>3. VerifiersTypeOK'
  BY <1>1 DEF IInv, VerifiersTypeOK, Mint
<1>4. \A r \in Requests : req[r] # Absent => req[r].vp \in VPs /\ req[r].vp # v
  BY RequestType DEF IInv, FoundStillHolds, Mint
<1>5. FoundStillHolds'
  BY <1>2, <1>4 DEF IInv, FoundStillHolds, Mint, Expired
<1>6. CacheIsLifetime' /\ Established'
  BY <1>2 DEF IInv, CacheIsLifetime, Established, Mint, On
<1>. QED
  BY <1>3, <1>5, <1>6 DEF IInv

LEMMA RevokeKeepsIInv ==
  ASSUME IInv, NEW v \in VPs, Revoke(v)
  PROVE  IInv'
BY DEF IInv, VerifiersTypeOK, CacheIsLifetime, FoundStillHolds, Established, Revoke, Expired, On

LEMMA RestartKeepsIInv == IInv /\ Restart => IInv'
<1>. SUFFICES ASSUME IInv, Restart PROVE IInv'
  OBVIOUS
<1>1. key' \in 1 .. MaxKeys
  BY VerifierAssumption DEF IInv, VerifiersTypeOK, Restart
<1>. QED
  BY <1>1 DEF IInv, VerifiersTypeOK, CacheIsLifetime, FoundStillHolds, Established, Restart, Expired, On

\* What is left of the cache when it is pruned has not expired.
LEMMA PrunedFacts ==
  ASSUME IInv
  PROVE  /\ Pruned(cache) \in [VPs -> Nat \cup {Absent}]
         /\ \A v \in VPs : Pruned(cache)[v] # Absent =>
               vp[v] # Absent /\ Pruned(cache)[v] = vp[v].until /\ ~Expired(vp[v].until)
BY DEF IInv, VerifiersTypeOK, CacheIsLifetime, Pruned

LEMMA PresentKeepsIInv ==
  ASSUME IInv, NEW r \in Requests, NEW v \in VPs, NEW path \in Paths, Present(r, v, path)
  PROVE  IInv'
<1>. DEFINE q == [path |-> path, at |-> FirstStep(path, v), vp |-> v,
                  late |-> Expired(vp[v].until), revoked |-> v \in gone,
                  hit |-> path = "cache" /\ Pruned(cache)[v] # Absent, key |-> 0, until |-> 0]
<1>1. req' = [req EXCEPT ![r] = q] /\ vp[v] # Absent /\ UNCHANGED <<now, vp, gone, key>>
  BY DEF Present
<1>2. /\ q.path = path /\ q.at = FirstStep(path, v) /\ q.vp = v
      /\ q.late = Expired(vp[v].until) /\ q.revoked = (v \in gone)
      /\ q.hit = (path = "cache" /\ Pruned(cache)[v] # Absent)
  OBVIOUS
<1>3. FirstStep(path, v) \in Steps
  BY DEF FirstStep, Steps
<1>4. q \in Request
  <2>1. Expired(vp[v].until) \in BOOLEAN
    BY DEF Expired
  <2>2. 0 \in 0 .. MaxKeys /\ 0 \in Nat
    BY VerifierAssumption
  <2>. QED BY <1>3, <2>1, <2>2 DEF Request
<1>. HIDE DEF q
<1>5. cache' \in [VPs -> Nat \cup {Absent}] /\ CacheIsLifetime'
  BY PrunedFacts DEF Present, IInv, VerifiersTypeOK, CacheIsLifetime
<1>6. \A s \in Requests : req'[s] = IF s = r THEN q ELSE req[s]
  BY <1>1 DEF IInv, VerifiersTypeOK
<1>7. VerifiersTypeOK'
  BY <1>1, <1>4, <1>5 DEF IInv, VerifiersTypeOK
<1>8. FoundStillHolds'
  <2>1. vp[q.vp] # Absent /\ (q.revoked => q.vp \in gone) /\ (q.late => Expired(vp[q.vp].until))
    BY <1>1, <1>2, Zenon
  <2>2. \A t : Expired(t)' <=> Expired(t)
    BY <1>1 DEF Expired
  <2>. QED BY <1>1, <1>6, <2>1, <2>2 DEF IInv, FoundStillHolds
<1>9. /\ q.at \in {"holder", "issuer"} => q.path = "self" /\ ~q.late
      /\ q.at = "status" => q.path \in {"self", "status"} /\ (q.late => q.path = "status")
      /\ q.at \in {"accepted", "fetchKey", "token", "granted"} =>
            (q.revoked => q.hit) /\ (q.late => q.path = "status")
  BY <1>2, PrunedFacts DEF FirstStep, Paths
<1>10. Established'
  BY <1>6, <1>9 DEF IInv, Established, On
<1>. QED
  BY <1>5, <1>7, <1>8, <1>10 DEF IInv

LEMMA NextIInv == IInv /\ [VerifiersNext]_verifiersVars => IInv'
<1>. SUFFICES ASSUME IInv, [VerifiersNext]_verifiersVars PROVE IInv'
  OBVIOUS
<1>1. CASE UNCHANGED verifiersVars
  BY <1>1 DEF verifiersVars, IInv, VerifiersTypeOK, CacheIsLifetime, FoundStillHolds, Established, Expired, On
<1>. QED
  BY <1>1, TickKeepsIInv, RestartKeepsIInv, MintKeepsIInv, RevokeKeepsIInv, PresentKeepsIInv,
     RequestStepKeepsIInv DEF VerifiersNext

(***************************************************************************)
(* Whatever the lifetimes and however requests, revocations, restarts and  *)
(* time interleave: a request that begins after the revocation is granted  *)
(* only by a cached verdict, and one that begins after the presentation's  *)
(* expiry only where nothing but the status list is looked at              *)
(* (verifier-vp-cache-cycle.ts, self-verify.ts, revocation-check.ts).      *)
(***************************************************************************)
THEOREM VerdictsAreCurrent == VerifiersSpec => []GrantsAreCurrent
<1>1. IInv => GrantsAreCurrent
  BY DEF IInv, Established, GrantsAreCurrent, Granted, At
<1>. QED
  BY <1>1, InitIInv, NextIInv, PTL DEF VerifiersSpec
=============================================================================
