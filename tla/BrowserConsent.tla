--------------------------- MODULE BrowserConsent ---------------------------
(***************************************************************************)
(* The travel planner's page (e2e-consent-demo/agent/web.ts) and the SP's  *)
(* consent page in its popup (script of consentPageHtml, sp-shared/        *)
(* app.ts).  The page keeps one pending call; the popup is one named       *)
(* window that the next consent request reuses; the two talk by            *)
(* postMessage, and the page's listener awaits the agent before it reads   *)
(* what is pending.  Clicks on options and chips start calls whatever else *)
(* is in flight.                                                           *)
(*                                                                         *)
(* The SP's gate (ConsentGate) is reduced to whether an adequate grant     *)
(* exists for the call's SP.                                               *)
(***************************************************************************)
EXTENDS Naturals, Sequences

CONSTANTS
    Calls, SPs,
    SpOf,     \* the SP each call is for
    None,
    MaxPages  \* bound on the consent pages opened

ASSUME BrowserAssumption ==
    /\ SpOf \in [Calls -> SPs]
    /\ None \notin Calls
    /\ MaxPages \in Nat

VARIABLES
    granted,   \* SPs the platform holds an adequate grant of
    st,        \* each call: where its runCall is
    booked,    \* how often its tool has run
    pending,   \* the call the page would run after an acceptance, or None
    popup,     \* [call, step] of the consent page in the popup, or None
    inbox,     \* messages posted to the page: [type, call]
    waiting,   \* how many listeners await /api/grants, by the call of their page
    retried,   \* calls run again after an acceptance
    declined,  \* calls the user was told were not made
    late,      \*   though they had been made, or were under way again, by then
    excused,   \* calls whose acceptance the page could not pass on
    consented, \* calls whose consent page reported an acceptance
    pages,     \* number of consent pages opened
    overlapped \* has a call been started before the last one was settled?

vars == <<granted, st, booked, pending, popup, inbox, waiting, retried, declined, late,
          excused, consented, pages, overlapped>>
page == <<granted, booked, inbox, waiting, retried, declined, late, excused, consented, pages>>

Progress  == {"idle", "posted", "served", "refused", "consent", "booked", "failed"}
InFlight  == {"posted", "served", "refused"}
\* "leaving": declined while an acceptance is on its way to the SP.
PageSteps == {"review", "accepting", "leaving", "banner"}
Sending   == {"accepting", "leaving"}

Pages    == [call : Calls, step : PageSteps]
Messages == [type : {"accepted", "declined"}, call : Calls]

TypeOK ==
    /\ granted \subseteq SPs
    /\ st \in [Calls -> Progress]
    /\ booked \in [Calls -> Nat]
    /\ pending \in Calls \cup {None}
    /\ popup \in Pages \cup {None}
    /\ inbox \in Seq(Messages)
    /\ waiting \in [Calls -> Nat]
    /\ retried \subseteq Calls /\ declined \subseteq Calls /\ late \subseteq Calls
    /\ excused \subseteq Calls /\ consented \subseteq Calls
    /\ pages \in 0 .. MaxPages
    /\ overlapped \in BOOLEAN

Init ==
    /\ granted \in SUBSET SPs
    /\ st = [c \in Calls |-> "idle"]
    /\ booked = [c \in Calls |-> 0]
    /\ pending = None
    /\ popup = None
    /\ inbox = <<>>
    /\ waiting = [c \in Calls |-> 0]
    /\ retried = {} /\ declined = {} /\ late = {} /\ excused = {} /\ consented = {}
    /\ pages = 0
    /\ overlapped = FALSE

Move(c, step) == st' = [st EXCEPT ![c] = step]

\* Nothing of an earlier call is under way.
Settled ==
    /\ pending = None /\ popup = None /\ inbox = <<>>
    /\ \A c \in Calls : st[c] \notin InFlight /\ waiting[c] = 0

-----------------------------------------------------------------------------
(***************************************************************************)
(* runCall: /api/call, its answer and renderConsent.                       *)
(***************************************************************************)
Book(c) ==
    /\ st[c] = "idle"
    /\ overlapped' = (overlapped \/ ~Settled)
    /\ Move(c, "posted")
    /\ UNCHANGED <<page, pending, popup>>

\* The agent and the SP: the tool runs if there is a grant, although its answer
\* may be lost; or consent is required; or something fails.
Serve(c) ==
    /\ st[c] = "posted"
    /\ \/ /\ SpOf[c] \in granted
          /\ booked' = [booked EXCEPT ![c] = @ + 1]
          /\ Move(c, "served") \/ Move(c, "failed")
       \/ /\ SpOf[c] \notin granted
          /\ Move(c, "refused")
          /\ UNCHANGED booked
       \/ Move(c, "failed") /\ UNCHANGED booked
    /\ UNCHANGED <<granted, pending, popup, inbox, waiting, retried, declined, late,
                   excused, consented, pages, overlapped>>

RenderBooking(c) ==
    /\ st[c] = "served"
    /\ Move(c, "booked")
    /\ UNCHANGED <<page, pending, popup, overlapped>>

\* One pending call: an earlier one is forgotten.
RenderConsent(c) ==
    /\ st[c] = "refused"
    /\ pending' = c
    /\ Move(c, "consent")
    /\ UNCHANGED <<page, popup, overlapped>>

-----------------------------------------------------------------------------
(***************************************************************************)
(* The popup.                                                              *)
(***************************************************************************)

\* A page that leaves the popup cannot post its message; an acceptance it
\* has sent is carried out by the SP all the same.
LeavePage ==
    granted' \in IF popup # None /\ popup.step \in Sending
                 THEN {granted, granted \cup {SpOf[popup.call]}}
                 ELSE {granted}

\* Any consent button of the log opens the pending call's page, in place of
\* what the popup shows.
OpenConsent ==
    /\ pending # None
    /\ pages < MaxPages
    /\ pages' = pages + 1
    /\ LeavePage
    /\ popup' = [call |-> pending, step |-> "review"]
    /\ UNCHANGED <<st, booked, pending, inbox, waiting, retried, declined, late,
                   excused, consented, overlapped>>

ClosePopup ==
    /\ popup # None
    /\ LeavePage
    /\ popup' = None
    /\ UNCHANGED <<st, booked, pending, inbox, waiting, retried, declined, late,
                   excused, consented, pages, overlapped>>

ClickAccept ==
    /\ popup # None /\ popup.step = "review"
    /\ popup' = [popup EXCEPT !.step = "accepting"]
    /\ UNCHANGED <<granted, st, booked, pending, inbox, waiting, retried, declined,
                   late, excused, consented, pages, overlapped>>

\* The grant is issued, for the selection the user made: it may lack the
\* scope the call needs.  The page posts it and closes itself.
Accepted ==
    /\ popup # None /\ popup.step \in Sending
    /\ granted' \in {granted, granted \cup {SpOf[popup.call]}}
    /\ inbox' = Append(inbox, [type |-> "accepted", call |-> popup.call])
    /\ consented' = consented \cup {popup.call}
    /\ popup' = None
    /\ UNCHANGED <<st, booked, pending, waiting, retried, declined, late, excused,
                   pages, overlapped>>

\* No grant: a banner with nothing but a Close button, which declines.
AcceptFails ==
    /\ popup # None /\ popup.step \in Sending
    /\ popup' = [popup EXCEPT !.step = "banner"]
    /\ UNCHANGED <<page, st, pending, overlapped>>

\* "Not now" stays enabled while the acceptance is being sent: the page then
\* posts both messages, unless it closes itself first.
ClickDecline ==
    /\ popup # None /\ popup.step # "leaving"
    /\ inbox' = Append(inbox, [type |-> "declined", call |-> popup.call])
    /\ popup' = IF popup.step = "accepting" THEN [popup EXCEPT !.step = "leaving"] ELSE None
    /\ UNCHANGED <<granted, st, booked, pending, waiting, retried, declined, late,
                   excused, consented, pages, overlapped>>

-----------------------------------------------------------------------------
(***************************************************************************)
(* The page's message listener.                                            *)
(***************************************************************************)

\* Mutant: any message of an SP counts as an acceptance.
ReceiveAccepted_AnyType ==
    /\ inbox # <<>>
    /\ waiting' = IF pending = None THEN waiting
                  ELSE [waiting EXCEPT ![Head(inbox).call] = @ + 1]
    /\ inbox' = Tail(inbox)
    /\ UNCHANGED <<granted, st, booked, pending, popup, retried, declined, late,
                   excused, consented, pages, overlapped>>

\* Mutant: the acceptance is not taken up.
ReceiveAccepted_Dropped ==
    /\ inbox # <<>> /\ Head(inbox).type = "accepted"
    /\ inbox' = Tail(inbox)
    /\ UNCHANGED <<granted, st, booked, pending, popup, waiting, retried, declined,
                   late, excused, consented, pages, overlapped>>

\* An acceptance while something is pending: on to /api/grants.  Otherwise it
\* is ignored.
ReceiveAccepted ==
    /\ inbox # <<>> /\ Head(inbox).type = "accepted"
    /\ waiting' = IF pending = None THEN waiting
                  ELSE [waiting EXCEPT ![Head(inbox).call] = @ + 1]
    /\ inbox' = Tail(inbox)
    /\ UNCHANGED <<granted, st, booked, pending, popup, retried, declined, late,
                   excused, consented, pages, overlapped>>

\* The calls a declined page is about, to the user: its own, and the one the
\* listener forgets for it.
DeclinedCalls == {Head(inbox).call, pending} \ {None}

\* "Permission was declined, so I did not make the booking": said whether or
\* not anything is pending.
ReceiveDeclined ==
    /\ inbox # <<>> /\ Head(inbox).type = "declined"
    /\ declined' = declined \cup DeclinedCalls
    /\ late' = late \cup {c \in DeclinedCalls : booked[c] > 0 \/ st[c] \in InFlight}
    /\ pending' = None
    /\ inbox' = Tail(inbox)
    /\ UNCHANGED <<granted, st, booked, popup, waiting, retried, excused, consented,
                   pages, overlapped>>

\* Mutant: the pending call is not cleared before it runs again.
Acknowledged_KeepsPending(c) ==
    /\ waiting[c] > 0
    /\ waiting' = [waiting EXCEPT ![c] = @ - 1]
    /\ IF pending = None
       THEN UNCHANGED <<st, retried, overlapped>>
       ELSE Move(pending, "posted") /\ retried' = retried \cup {pending}
    /\ UNCHANGED <<granted, booked, pending, popup, inbox, declined, late, excused,
                   consented, pages, overlapped>>

\* Mutant: the call to run again is chosen before the await.
Acknowledged_Captured(c) ==
    /\ waiting[c] > 0
    /\ waiting' = [waiting EXCEPT ![c] = @ - 1]
    /\ Move(c, "posted")
    /\ retried' = retried \cup {c}
    /\ pending' = None
    /\ UNCHANGED <<granted, booked, popup, inbox, declined, late, excused, consented,
                   pages, overlapped>>

\* The agent acknowledged: what is pending NOW runs again, as fresh consent.
\* Nothing pending any more: a call without a tool, which the agent refuses.
Acknowledged(c) ==
    /\ waiting[c] > 0
    /\ waiting' = [waiting EXCEPT ![c] = @ - 1]
    /\ IF pending = None
       THEN UNCHANGED <<st, retried, overlapped>>
       ELSE Move(pending, "posted") /\ retried' = retried \cup {pending}
    /\ pending' = None
    /\ UNCHANGED <<granted, booked, popup, inbox, declined, late, excused, consented,
                   pages, overlapped>>

\* The agent cannot be reached, or the session is over: the call stays pending.
StoreFails(c) ==
    /\ waiting[c] > 0
    /\ waiting' = [waiting EXCEPT ![c] = @ - 1]
    /\ excused' = excused \cup {c}
    /\ UNCHANGED <<granted, st, booked, pending, popup, inbox, retried, declined, late,
                   consented, pages, overlapped>>

-----------------------------------------------------------------------------
RunCall(c) == Serve(c) \/ RenderBooking(c) \/ RenderConsent(c)

User == OpenConsent \/ ClosePopup \/ ClickAccept \/ ClickDecline

Receive == ReceiveAccepted \/ ReceiveDeclined

Next ==
    \/ \E c \in Calls : Book(c) \/ RunCall(c)
    \/ User
    \/ Accepted \/ AcceptFails
    \/ Receive
    \/ \E c \in Calls : Acknowledged(c) \/ StoreFails(c)

Spec == Init /\ [][Next]_vars

\* The browser delivers messages and resolves promises; the user need not act.
Fairness ==
    /\ \A c \in Calls : WF_vars(RunCall(c))
    /\ WF_vars(Receive)
    /\ \A c \in Calls : WF_vars(Acknowledged(c) \/ StoreFails(c))

FairSpec == Spec /\ Fairness
-----------------------------------------------------------------------------
(***************************************************************************)
(* Properties.                                                             *)
(***************************************************************************)

\* However the user clicks and whatever messages arrive, a call books at most
\* once: the listener clears what is pending before it runs it again.
BookedAtMostOnce == \A c \in Calls : booked[c] <= 1

\* A call the user is told was not made is not made, even if an acceptance is
\* on its way to the agent: the listener reads what is pending after its await,
\* not before.  The exception is a call that an acceptance had already run again
\* when a page of it, opened once more, was declined.
DeclinedStaysUnbooked ==
    /\ \A c \in declined \ late : booked[c] = 0 /\ st[c] \notin InFlight
    /\ late \subseteq retried

\* One call at a time: only the call whose own consent page was accepted runs
\* again.
RetryFollowsConsent == ~overlapped => retried \subseteq consented

Retried(c) == c \in retried \cup declined \cup excused

\* One call at a time: the call whose consent page reported an acceptance is
\* run again, unless the user was told that it was not, or that the page
\* could not pass the permission on.
AcceptedIsRetried ==
    \A c \in Calls : c \in consented /\ ~overlapped ~> (Retried(c) \/ overlapped)

\* The README's claim has no such condition: see "What the code does not keep".
=============================================================================
