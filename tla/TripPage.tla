------------------------------ MODULE TripPage ------------------------------
(***************************************************************************)
(* The page on which a passenger follows and pays a trip: the ride detail  *)
(* component, and the parcel detail component, which is the same code but  *)
(* for the places where `kind` is read below.                              *)
(*                                                                         *)
(* It learns of the payment from a socket that may drop, from a poll of    *)
(* the payment, from an interval that reads the trip, and from what the    *)
(* passenger presses; every one of them starts an HTTP request whose reply *)
(* changes the page when it comes.  The server is the promise of module    *)
(* PaymentRow and the trip's own progress.                                 *)
(***************************************************************************)
EXTENDS Naturals, Sequences, SequencesExt

CONSTANTS
    Trip,           \* the trip of the page
    Kinds,          \* the pages there are: "ride", "parcel"
    MaxRequests,    \* bound on the HTTP requests in flight
    MaxEvents,      \* bound on the socket events in flight
    MaxRidePolls,   \* the polls of the trip's status after payment: 72
    MayFail,        \* the requests that may fail, by what they are for
    SocketLoss,     \* TRUE: the socket may drop
    Overtake        \* TRUE: a reply may overtake that of an earlier request

ASSUME TripPageAssumption ==
    /\ Kinds \subseteq {"ride", "parcel"}
    /\ MaxRequests \in Nat \ {0}
    /\ {MaxEvents, MaxRidePolls} \subseteq Nat
    /\ {SocketLoss, Overtake} \subseteq BOOLEAN

VARIABLES
    kind,       \* "ride" or "parcel", for good
    method,     \* the trip's payment method, for good
    trip,       \* the server's status of the trip
    pay,        \* the server's row of payments (module PaymentRow)
    page,       \* the component's signals and timers
    sock,       \* TrackingService's socket
    events,     \* what the server has sent on it
    reqs        \* the HTTP requests in flight, in the order they were sent

pageVars == <<kind, method, trip, pay, page, sock, events, reqs>>

Row == INSTANCE PaymentRow WITH Trips <- {Trip}, Regress <- FALSE

-----------------------------------------------------------------------------
(* ACTIVE stands for the statuses a rider moves a trip through, COMPLETED  *)
(* for a parcel's DELIVERED too.                                           *)
Statuses == {"PENDING", "ACTIVE", "COMPLETED", "CANCELLED"}

(* ACTIVE_STATUSES, and ACTIVE_PARCEL_PAYMENT_STATUSES with PENDING in it. *)
ActiveStatuses == IF kind = "ride" THEN {"ACTIVE"} ELSE {"PENDING", "ACTIVE"}

Terminal == {"COMPLETED", "FAILED"}

Pages ==
    [st : {"loading", "open", "closed"}, trip : Statuses \cup {"NONE"}, pay : Row!PayStatuses,
     paying : BOOLEAN, refreshing : BOOLEAN, cancelling : BOOLEAN,
     sync : BOOLEAN,                    \* mpesaProcessingSyncTimer is set
     since : {"null", "now", "past"},   \* processingStartTime: half a minute ago, or less
     grace : BOOLEAN,                   \* resendGraceTimer is set
     resend : BOOLEAN,                  \* showResendOption
     failedDelay : BOOLEAN,             \* failedDelayTimer is set
     poller : {"none", "waiting"} \cup Terminal,    \* the poll by id that still counts
     ridePoll : BOOLEAN, ridePolls : 0 .. MaxRidePolls,
     refused : BOOLEAN]                 \* the last prompt asked for was not confirmed

Loading ==
    [st |-> "loading", trip |-> "NONE", pay |-> "NONE", paying |-> FALSE,
     refreshing |-> FALSE, cancelling |-> FALSE, sync |-> FALSE, since |-> "null",
     grace |-> FALSE, resend |-> FALSE, failedDelay |-> FALSE, poller |-> "none",
     ridePoll |-> FALSE, ridePolls |-> 0, refused |-> FALSE]

(* A request, by what its reply is for; `to` is the claim to reconcile.    *)
PageRequests ==
    [for : {"init", "reconcile", "tick", "poll", "after", "cash", "refresh", "initiate",
            "resend", "recover", "cancel", "rate"},
     to : Terminal \cup {"NONE"}, at : {"sent", "ok", "error", "refused"},
     trip : Statuses \cup {"NONE"}, pay : Row!PayStatuses]

Request(what, claim) ==
    [for |-> what, to |-> claim, at |-> "sent", trip |-> "NONE", pay |-> "NONE"]

Get(what) == Request(what, "NONE")

Ask(r) == Len(reqs) < MaxRequests /\ reqs' = Append(reqs, r)

(* `on`: the handlers set on this socket; `sub`: subscribedPaymentId.      *)
Sockets ==
    [st : {"none", "connecting", "connected"}, on : SUBSET {"location", "payment", "trip"},
     sub : BOOLEAN]

NoSocket == [st |-> "none", on |-> {}, sub |-> FALSE]

-----------------------------------------------------------------------------
(* TrackingService *)

(* connect: a socket that is not connected is replaced, handlers and all.  *)
Connect(s) ==
    IF s.st = "connected" THEN s
    ELSE [st |-> "connecting", on |-> {}, sub |-> s.sub]

On(s, event) == [s EXCEPT !.on = @ \cup {event}]

(* subscribeToPayment and onPaymentUpdate.                                 *)
Subscribe(s) == [On(s, "payment") EXCEPT !.sub = TRUE]

(* unsubscribeFromPayment and offPaymentUpdate.                            *)
Unsubscribe(s) == [s EXCEPT !.on = @ \ {"payment"}, !.sub = FALSE]

(* The server emits to the payment's room, which the socket joins whenever *)
(* it connects with `sub` set, and to the account's.  The two events of a  *)
(* webhook travel as one; what no handler waits for is dropped at once.    *)
Hearers(to) == {ev \in to \cap sock.on : ev = "payment" => sock.sub}

Emit(to, st) ==
    IF sock.st = "connected" /\ Hearers(to) # {}
    THEN /\ Len(events) < MaxEvents
         /\ events' = Append(events, [to |-> Hearers(to), st |-> st])
    ELSE UNCHANGED events

ToBoth == {"payment", "trip"}

SocketConnects ==
    /\ sock.st = "connecting"
    /\ sock' = [sock EXCEPT !.st = "connected"]
    /\ UNCHANGED <<kind, method, trip, pay, page, events, reqs>>

SocketDrops ==
    /\ SocketLoss
    /\ sock.st = "connected"
    /\ sock' = [sock EXCEPT !.st = "connecting"]
    /\ events' = <<>>
    /\ UNCHANGED <<kind, method, trip, pay, page, reqs>>

-----------------------------------------------------------------------------
(* The server *)

(* A trip is paid for while it is active (canPay).                         *)
PageInit ==
    /\ kind \in Kinds
    /\ method \in Row!PayMethods
    /\ trip \in {"PENDING", "ACTIVE"}
    /\ \/ pay = [t \in {Trip} |-> Row!NoPay]
       \/ \E st \in {"PROCESSING", "COMPLETED", "FAILED"} :
              /\ method = "MPESA" /\ trip \in ActiveStatuses
              /\ pay = [t \in {Trip} |-> [st |-> st, method |-> method]]
    /\ page = Loading
    /\ sock = NoSocket
    /\ events = <<>>
    /\ reqs = <<Get("init")>>

(* The rider takes the trip, goes on with it and ends it; an M-Pesa trip   *)
(* ends when it is paid, a cash one is paid as it ends.                    *)
TripProgresses ==
    /\ \/ trip = "PENDING" /\ trip' = "ACTIVE" /\ UNCHANGED <<pay, events>>
       \/ /\ trip = "ACTIVE" /\ trip' = "COMPLETED"
          /\ \/ method = "MPESA" /\ Row!Paid(Trip) /\ UNCHANGED <<pay, events>>
             \/ method = "CASH" /\ Row!CollectCash(Trip) /\ Emit(ToBoth, "COMPLETED")
    /\ UNCHANGED <<kind, method, page, sock, reqs>>

(* The provider's webhooks, and the prompt that fails in the background,   *)
(* of which only the payment's room hears.                                 *)
PaymentMoves ==
    /\ \/ Row!SettleRow(Trip) /\ Emit(ToBoth, "COMPLETED")
       \/ Row!FailRow(Trip) /\ Emit(ToBoth, "FAILED")
       \/ Row!FailRow(Trip) /\ Emit({"payment"}, "FAILED")
       \/ Row!Open(Trip) /\ Emit({"payment"}, "PROCESSING") /\ UNCHANGED pay
    /\ UNCHANGED <<kind, method, trip, page, sock, reqs>>

(* The server answers the i-th request; without Overtake, in turn.         *)
Due(i) ==
    /\ i \in DOMAIN reqs /\ reqs[i].at = "sent"
    /\ Overtake \/ \A j \in 1 .. i - 1 : reqs[j].at # "sent"

Answer(i, at) == reqs' = [reqs EXCEPT ![i].at = at]

ServeGet(i) ==
    /\ Due(i)
    /\ reqs[i].for \notin {"initiate", "resend", "cancel"}
    /\ reqs' = [reqs EXCEPT ![i].at = "ok", ![i].trip = trip, ![i].pay = pay[Trip].st]
    /\ UNCHANGED <<kind, method, trip, pay, page, sock, events>>

(* initiatePayment answers with the row there is while it is PROCESSING;   *)
(* of a second row the unique index makes an error.                        *)
ServeInitiate(i) ==
    /\ Due(i) /\ reqs[i].for = "initiate"
    /\ \/ Row!CreateRow(Trip, "MPESA") /\ Answer(i, "ok")
       \/ pay[Trip].st = "PROCESSING" /\ Answer(i, "ok") /\ UNCHANGED pay
       \/ pay[Trip].st \in Terminal /\ Answer(i, "error") /\ UNCHANGED pay
    /\ UNCHANGED <<kind, method, trip, page, sock, events>>

ServeResend(i) ==
    /\ Due(i) /\ reqs[i].for = "resend"
    /\ IF Row!Open(Trip)
       THEN Row!ResendRow(Trip) /\ Emit({"payment"}, "PROCESSING") /\ Answer(i, "ok")
       ELSE Answer(i, "refused") /\ UNCHANGED <<pay, events>>
    /\ UNCHANGED <<kind, method, trip, page, sock>>

(* cancelRide, up to ACCEPTED, the first of the active statuses; the       *)
(* parcel page asks for the status CANCELLED, which riders only may.       *)
ServeCancel(i) ==
    /\ Due(i) /\ reqs[i].for = "cancel"
    /\ \/ /\ kind = "ride" /\ trip \in {"PENDING", "ACTIVE"}
          /\ trip' = "CANCELLED"
          /\ reqs' = [reqs EXCEPT ![i].at = "ok", ![i].trip = "CANCELLED"]
       \/ /\ kind = "parcel" \/ trip # "PENDING"
          /\ Answer(i, "refused") /\ UNCHANGED trip
    /\ UNCHANGED <<kind, method, pay, page, sock, events>>

(* A request fails: it did not reach the server, or the answer was lost on *)
(* its way back, an error (5xx) or no answer at all (refused).             *)
RequestFails(i) ==
    /\ i \in DOMAIN reqs /\ reqs[i].at \in {"sent", "ok"}
    /\ reqs[i].for \in MayFail
    /\ \E at \in {"error", "refused"} : Answer(i, at)
    /\ UNCHANGED <<kind, method, trip, pay, page, sock, events>>

-----------------------------------------------------------------------------
(* The component: what its replies share *)

Active(p) == p.trip \in ActiveStatuses

(* startRideStatusPoll                                                     *)
WithRidePoll(p) == [p EXCEPT !.ridePoll = TRUE, !.ridePolls = 0]

(* `ride.set(fresh)`, and `if (fresh.payment) payment.set(fresh.payment)`. *)
WithTrip(p, r) == [p EXCEPT !.trip = r.trip]
WithPay(p, r) == [p EXCEPT !.pay = IF r.pay = "NONE" THEN @ ELSE r.pay]

(* applyPaymentTerminal: a FAILED that comes too soon waits for the timer. *)
Deferred(p, st) == st = "FAILED" /\ p.pay = "PROCESSING" /\ p.since = "now"

WithTerminal(p, st) ==
    IF p.pay = st THEN p
    ELSE IF Deferred(p, st) THEN [p EXCEPT !.failedDelay = TRUE]
    ELSE [p EXCEPT !.pay = IF @ = "NONE" THEN @ ELSE st,
                   !.grace = FALSE,
                   !.failedDelay = @ /\ st = "FAILED",
                   !.resend = st = "FAILED"]

(* ... and whether it reads the trip once more, to go on polling it.       *)
AsksAfter(p, st) == st = "COMPLETED" /\ p.pay # st

(* A prompt was sent: startResendGrace, the socket, the interval, the poll.*)
WithPrompt(p) ==
    [p EXCEPT !.pay = "PROCESSING", !.since = "now", !.grace = TRUE, !.resend = FALSE,
              !.failedDelay = FALSE, !.sync = method = "MPESA", !.poller = "waiting",
              !.paying = FALSE, !.refused = FALSE]

(* The i-th reply has come: it was asked for `what`.                       *)
Came(i, what) ==
    /\ i \in DOMAIN reqs /\ reqs[i].for = what
    /\ Overtake \/ i = 1

Rest(i) == RemoveAt(reqs, i)
Only(i) == reqs' = Rest(i)
RestAnd(i, asks, r) == reqs' = IF asks THEN Append(Rest(i), r) ELSE Rest(i)

-----------------------------------------------------------------------------
(* Replies *)

(* ngOnInit: the ride page watches the rider's location, and both connect  *)
(* once more for each thing they listen to.                                *)
InitReply(i) ==
    /\ Came(i, "init") /\ reqs[i].at = "ok"
    /\ LET r == reqs[i]
           read == [WithPay(WithTrip(page, r), r) EXCEPT !.st = "open"]
           active == Active(read)
           watched == IF kind = "ride" /\ active THEN On(Connect(sock), "location") ELSE sock
           paid == IF r.pay = "PROCESSING" THEN Subscribe(Connect(watched)) ELSE watched
           listens == IF kind = "ride" THEN method = "MPESA" \/ active ELSE active
       IN  /\ page' = IF r.pay = "PROCESSING"
                      THEN [read EXCEPT !.since = "past", !.resend = TRUE,
                                        !.sync = method = "MPESA", !.poller = "waiting"]
                      ELSE IF r.pay = "COMPLETED" /\ active THEN WithRidePoll(read) ELSE read
           /\ sock' = IF listens THEN On(Connect(paid), "trip") ELSE paid
    /\ Only(i)
    /\ UNCHANGED <<kind, method, trip, pay, events>>

(* Mutant: what the event said is shown, not what the server says.         *)
ReconcileTrustsClaim(i) ==
    /\ Came(i, "reconcile") /\ reqs[i].at = "ok"
    /\ LET p == WithTrip(page, reqs[i])
           st == reqs[i].to
       IN  page' = WithTerminal(p, st) /\ RestAnd(i, AsksAfter(p, st), Get("after"))
    /\ UNCHANGED <<kind, method, trip, pay, sock, events>>

(* reconcileMpesaTerminalFromServer                                        *)
ReconcileReply(i) ==
    /\ Came(i, "reconcile") /\ reqs[i].at = "ok"
    /\ LET r == reqs[i]
           p == WithTrip(page, r)
       IN  IF r.pay # r.to
           THEN page' = WithPay(p, r) /\ Only(i)
           ELSE page' = WithTerminal(p, r.pay) /\ RestAnd(i, AsksAfter(p, r.pay), Get("after"))
    /\ UNCHANGED <<kind, method, trip, pay, sock, events>>

(* Mutant: the interval ends with its first reply.                         *)
TickOnce(i) ==
    /\ Came(i, "tick") /\ reqs[i].at = "ok"
    /\ page' = [WithPay(WithTrip(page, reqs[i]), reqs[i]) EXCEPT !.sync = FALSE]
    /\ Only(i)
    /\ UNCHANGED <<kind, method, trip, pay, sock, events>>

(* tickMpesaProcessingHttpSync: the payment is set before the terminal     *)
(* status is applied, which then finds nothing to do.                      *)
TickReply(i) ==
    /\ Came(i, "tick") /\ reqs[i].at = "ok"
    /\ LET r == reqs[i]
           p == WithPay(WithTrip(page, r), r)
       IN  IF r.pay \in Terminal
           THEN /\ page' = WithTerminal([p EXCEPT !.sync = FALSE], r.pay)
                /\ RestAnd(i, AsksAfter(p, r.pay), Get("after"))
           ELSE page' = p /\ Only(i)
    /\ UNCHANGED <<kind, method, trip, pay, sock, events>>

(* The read after a payment, that of a cash trip, and that after a rating. *)
AfterReply(i) ==
    /\ \/ Came(i, "after") \/ Came(i, "cash") \/ Came(i, "rate")
    /\ reqs[i].at = "ok"
    /\ LET r == reqs[i]
           p == WithPay(WithTrip(page, r), r)
           polls == \/ r.for = "after"
                    \/ r.for = "cash" /\ r.pay = "COMPLETED"
       IN  page' = IF polls /\ Active(p) THEN WithRidePoll(p) ELSE p
    /\ Only(i)
    /\ UNCHANGED <<kind, method, trip, pay, sock, events>>

(* pollRideStatus, after its await: again while the trip is active.        *)
PollReply(i) ==
    /\ Came(i, "poll")
    /\ LET r == reqs[i]
           p == WithPay(WithTrip(page, r), r)
       IN  page' = IF r.at = "ok" THEN [p EXCEPT !.ridePoll = Active(p)]
                                  ELSE [page EXCEPT !.ridePoll = TRUE]
    /\ reqs[i].at # "sent"
    /\ Only(i)
    /\ UNCHANGED <<kind, method, trip, pay, sock, events>>

(* refreshMpesaPaymentStatus: a terminal status is read a second time.     *)
RefreshReply(i) ==
    /\ Came(i, "refresh") /\ reqs[i].at = "ok"
    /\ LET r == reqs[i]
           p == [WithTrip(page, r) EXCEPT !.refreshing = FALSE]
       IN  /\ page' = IF r.pay \in Terminal THEN p ELSE WithPay(p, r)
           /\ RestAnd(i, r.pay \in Terminal, Request("reconcile", r.pay))
    /\ UNCHANGED <<kind, method, trip, pay, sock, events>>

(* initiatePayment and resendPayment: after a 5xx the trip tells whether   *)
(* the prompt went out; any other failure is final.                        *)
PromptReply(i) ==
    /\ \/ Came(i, "initiate") \/ Came(i, "resend")
    /\ \/ /\ reqs[i].at = "ok"
          /\ page' = WithPrompt(page)
          /\ sock' = Subscribe(Connect(sock))
          /\ Only(i)
       \/ /\ reqs[i].at = "error"
          /\ RestAnd(i, TRUE, Get("recover"))
          /\ UNCHANGED <<page, sock>>
       \/ /\ reqs[i].at = "refused"
          /\ page' = [page EXCEPT !.paying = FALSE, !.refused = TRUE]
          /\ Only(i)
          /\ UNCHANGED sock
    /\ UNCHANGED <<kind, method, trip, pay, events>>

RecoverReply(i) ==
    /\ Came(i, "recover") /\ reqs[i].at = "ok"
    /\ LET p == WithTrip(page, reqs[i])
       IN  IF reqs[i].pay = "PROCESSING"
           THEN page' = WithPrompt(p) /\ sock' = Subscribe(Connect(sock))
           ELSE page' = [p EXCEPT !.paying = FALSE, !.refused = TRUE] /\ UNCHANGED sock
    /\ Only(i)
    /\ UNCHANGED <<kind, method, trip, pay, events>>

CancelReply(i) ==
    /\ Came(i, "cancel") /\ reqs[i].at # "sent"
    /\ page' = [IF reqs[i].at = "ok" THEN WithTrip(page, reqs[i]) ELSE page
                EXCEPT !.cancelling = FALSE]
    /\ Only(i)
    /\ UNCHANGED <<kind, method, trip, pay, sock, events>>

(* The read failed: the page says so, or nothing.                          *)
ReadFailed(i) ==
    /\ \E what \in {"init", "reconcile", "tick", "after", "cash", "rate", "refresh", "recover"} :
           Came(i, what)
    /\ reqs[i].at \in {"error", "refused"}
    /\ page' = CASE reqs[i].for = "init" -> [page EXCEPT !.st = "open"]
                 [] reqs[i].for = "refresh" -> [page EXCEPT !.refreshing = FALSE]
                 [] reqs[i].for = "recover" -> [page EXCEPT !.paying = FALSE, !.refused = TRUE]
                 [] OTHER -> page
    /\ Only(i)
    /\ UNCHANGED <<kind, method, trip, pay, sock, events>>

-----------------------------------------------------------------------------
(* Events and timers *)

(* paymentUpdateCb and tripPaymentHandler, if set on this very socket.     *)
EventArrives ==
    /\ sock.st = "connected" /\ events # <<>>
    /\ events' = Tail(events)
    /\ LET to == Head(events).to \cap sock.on
           st == Head(events).st
       IN  IF to = {} \/ page.trip = "NONE"
           THEN UNCHANGED <<page, reqs>>
           ELSE IF st = "PROCESSING"
           THEN page' = [page EXCEPT !.pay = IF @ = "NONE" THEN @ ELSE st] /\ UNCHANGED reqs
           ELSE IF method = "MPESA"
           THEN Ask(Request("reconcile", st)) /\ UNCHANGED page
           ELSE IF "trip" \in to /\ st = "COMPLETED"
           THEN Ask(Get("cash")) /\ UNCHANGED page
           ELSE UNCHANGED <<page, reqs>>
    /\ UNCHANGED <<kind, method, trip, pay, sock>>

(* The interval: it stops itself once the payment is not PROCESSING.       *)
SyncTick ==
    /\ page.sync
    /\ IF page.pay # "PROCESSING"
       THEN page' = [page EXCEPT !.sync = FALSE] /\ UNCHANGED reqs
       ELSE Ask(Get("tick")) /\ UNCHANGED page
    /\ UNCHANGED <<kind, method, trip, pay, sock, events>>

(* pollStatusById: a read of the payment finds it settled.                 *)
PollerSees ==
    /\ page.poller = "waiting" /\ pay[Trip].st \in Terminal
    /\ page' = [page EXCEPT !.poller = pay[Trip].st]
    /\ UNCHANGED <<kind, method, trip, pay, sock, events, reqs>>

PollerReturns ==
    /\ page.poller \in Terminal
    /\ page' = [page EXCEPT !.poller = "none"]
    /\ IF method = "MPESA" THEN Ask(Request("reconcile", page.poller)) ELSE UNCHANGED reqs
    /\ UNCHANGED <<kind, method, trip, pay, sock, events>>

(* ... after sixty reads it gives up.                                      *)
PollerGivesUp ==
    /\ page.poller = "waiting"
    /\ page' = [page EXCEPT !.poller = "none"]
    /\ UNCHANGED <<kind, method, trip, pay, sock, events, reqs>>

(* pollRideStatus, up to its await.                                        *)
RidePoll ==
    /\ page.ridePoll
    /\ IF Active(page) /\ page.ridePolls < MaxRidePolls
       THEN /\ Ask(Get("poll"))
            /\ page' = [page EXCEPT !.ridePoll = FALSE, !.ridePolls = @ + 1]
       ELSE page' = [page EXCEPT !.ridePoll = FALSE] /\ UNCHANGED reqs
    /\ UNCHANGED <<kind, method, trip, pay, sock, events>>

(* Half a minute after the prompt: resendGraceTimer and failedDelayTimer.  *)
HalfMinute ==
    /\ page.since = "now"
    /\ LET p == [page EXCEPT !.since = "past", !.grace = FALSE, !.failedDelay = FALSE,
                             !.resend = @ \/ page.grace]
       IN  page' = IF page.failedDelay /\ p.pay # "COMPLETED" THEN WithTerminal(p, "FAILED") ELSE p
    /\ UNCHANGED <<kind, method, trip, pay, sock, events, reqs>>

-----------------------------------------------------------------------------
(* The passenger *)

Pay ==
    /\ page.st = "open" /\ ~page.paying
    /\ method = "MPESA" /\ page.pay = "NONE" /\ Active(page)
    /\ Ask(Get("initiate"))
    /\ page' = [page EXCEPT !.paying = TRUE]
    /\ UNCHANGED <<kind, method, trip, pay, sock, events>>

(* resendPayment first stops everything that watches the old prompt.       *)
Resend ==
    /\ page.st = "open" /\ ~page.paying /\ method = "MPESA"
    /\ page.pay = "FAILED" \/ (page.pay = "PROCESSING" /\ page.resend)
    /\ Ask(Get("resend"))
    /\ page' = [page EXCEPT !.paying = TRUE, !.sync = FALSE, !.poller = "none"]
    /\ sock' = Unsubscribe(sock)
    /\ UNCHANGED <<kind, method, trip, pay, events>>

Refresh ==
    /\ page.st = "open" /\ ~page.refreshing
    /\ method = "MPESA" /\ page.pay = "PROCESSING"
    /\ Ask(Get("refresh"))
    /\ page' = [page EXCEPT !.refreshing = TRUE]
    /\ UNCHANGED <<kind, method, trip, pay, sock, events>>

Cancel ==
    /\ page.st = "open" /\ ~page.cancelling
    /\ page.trip \in {"PENDING", "ACTIVE"}
    /\ Ask(Get("cancel"))
    /\ page' = [page EXCEPT !.cancelling = TRUE]
    /\ UNCHANGED <<kind, method, trip, pay, sock, events>>

(* submitRating, whose read of the trip is what changes the page.          *)
Rate ==
    /\ page.st = "open" /\ page.trip = "COMPLETED"
    /\ \A i \in DOMAIN reqs : reqs[i].for # "rate"
    /\ Ask(Get("rate"))
    /\ UNCHANGED <<kind, method, trip, pay, page, sock, events>>

(* ngOnDestroy: handlers and timers are removed.  What the destroyed page's*)
(* requests still do, unseen, is left out.                                 *)
Leave ==
    /\ page.st = "open"
    /\ page' = [Loading EXCEPT !.st = "closed"]
    /\ sock' = NoSocket /\ events' = <<>> /\ reqs' = <<>>
    /\ UNCHANGED <<kind, method, trip, pay>>

-----------------------------------------------------------------------------
Server ==
    \/ TripProgresses \/ PaymentMoves
    \/ \E i \in DOMAIN reqs : ServeInitiate(i) \/ ServeResend(i) \/ ServeCancel(i)
    \/ \E i \in DOMAIN reqs : ServeGet(i) \/ RequestFails(i)
    \/ SocketConnects \/ SocketDrops

Reply(i) ==
    \/ InitReply(i) \/ ReconcileReply(i) \/ TickReply(i) \/ AfterReply(i) \/ PollReply(i)
    \/ RefreshReply(i) \/ PromptReply(i) \/ RecoverReply(i) \/ CancelReply(i) \/ ReadFailed(i)

Timers == SyncTick \/ PollerSees \/ PollerReturns \/ PollerGivesUp \/ RidePoll \/ HalfMinute

User == Pay \/ Resend \/ Refresh \/ Cancel \/ Rate \/ Leave

PageNext == Server \/ (\E i \in DOMAIN reqs : Reply(i)) \/ EventArrives \/ Timers \/ User

PageSpec == PageInit /\ [][PageNext]_pageVars

(* A request is answered in the end, and its reply delivered; the interval *)
(* goes on for as long as it is set, however often MaxRequests holds it up.*)
PageFairSpec ==
    /\ PageSpec
    /\ WF_pageVars(\E i \in DOMAIN reqs :
           ServeGet(i) \/ ServeInitiate(i) \/ ServeResend(i) \/ ServeCancel(i))
    /\ WF_pageVars(\E i \in DOMAIN reqs : Reply(i))
    /\ SF_pageVars(SyncTick)
=============================================================================
