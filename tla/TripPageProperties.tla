------------------------- MODULE TripPageProperties -------------------------
(***************************************************************************)
(* What the trip pages promise the passenger.                              *)
(***************************************************************************)
EXTENDS TripPage

(* The page's signals and timers, the socket and the requests in flight    *)
(* are of their types.                                                     *)
PageTypeOK ==
    /\ kind \in Kinds
    /\ method \in Row!PayMethods
    /\ trip \in Statuses
    /\ pay \in [{Trip} -> Row!PayRows]
    /\ page \in Pages
    /\ sock \in Sockets
    /\ \A i \in DOMAIN events :
           events[i] \in [to : SUBSET ToBoth, st : Row!PayStatuses]
    /\ \A i \in DOMAIN reqs : reqs[i] \in PageRequests

(* A failure on the page is that of the last prompt: one that was read, or *)
(* put off, before a resend does not come up after it.                     *)
FailureIsOfLastPrompt ==
    page.pay = "FAILED" /\ ~page.paying /\ ~page.refused => pay[Trip].st # "PROCESSING"

(* A page that awaits a payment that was made stops awaiting it: while the *)
(* interval is set the payment gets there, if the socket drops or not and  *)
(* if the poll by id gave up or not, unless the passenger leaves or asks   *)
(* for a prompt that is not confirmed.                                     *)
AwaitingEnds ==
    (page.sync /\ Row!Paid(Trip)) ~>
        (page.pay \in Terminal \/ page.st = "closed" \/ page.refused)

(* Once the payment is confirmed and while the trip goes on, the page      *)
(* polls the trip's status.                                                *)
RidePollFollowsPayment ==
    page.st = "open" /\ page.pay = "COMPLETED" /\ Active(page)
        /\ page.ridePolls < MaxRidePolls
    => page.ridePoll \/ \E i \in DOMAIN reqs : reqs[i].for \in {"after", "poll", "cash"}

(* The page of an active ride tracks the rider.                            *)
LocationWatched ==
    kind = "ride" /\ page.st = "open" /\ Active(page) /\ sock.st = "connected"
    => "location" \in sock.on
=============================================================================
