------------------------------ MODULE RiderTrip ------------------------------
(***************************************************************************)
(* The page on which a rider takes his trips forward: the active ride and  *)
(* the active parcel, the button to the next status, and the proof of a    *)
(* delivery.                                                               *)
(*                                                                         *)
(* The page asks for the active trips when it opens, when the rider        *)
(* presses Refresh, every half minute, and when the socket tells of a      *)
(* payment; it also shows what the answer to a new status says.  Each of   *)
(* these replaces what is shown, whichever was asked first.  On the server *)
(* an operation is a step here: modules Rides and Parcels have them call   *)
(* by call.  Ride and parcel are asked for together and read together.     *)
(***************************************************************************)
EXTENDS Naturals, Sequences, SequencesExt

CONSTANTS
    Rides, Parcels,  \* the rider's trips to come
    NoTrip,          \* null
    MaxRequests,     \* bound on the requests in flight
    MaxUploads,      \* bound on the uploads in flight
    OneParcel,       \* TRUE: the rider takes a parcel when he has no other
    OneUpload,       \* TRUE: he uploads a proof only while the page has none
    Overtake,        \* TRUE: a request may be served, or its reply used, before an earlier one's
    Faults           \* TRUE: sockets drop, requests fail

Trips == Rides \cup Parcels

RiderTripAssumption ==
    /\ Rides \cap Parcels = {} /\ NoTrip \notin Trips
    /\ {MaxRequests, MaxUploads} \subseteq Nat \ {0}
    /\ {OneParcel, OneUpload, Overtake, Faults} \subseteq BOOLEAN

VARIABLES
    trip,     \* the rows of rides and parcels, with their payments
    page,     \* the component's signals
    sock,     \* TrackingService's socket
    news,     \* the trip:payment events on their way to the page
    reqs,     \* the requests in flight, in the order they were sent
    uploads   \* the uploads of a proof in flight

vars == <<trip, page, sock, news, reqs, uploads>>

-----------------------------------------------------------------------------
(* RIDE_NEXT and PARCEL_NEXT, which are the server's transitions too.      *)
RideNext ==
    [ACCEPTED |-> "EN_ROUTE_TO_PICKUP", EN_ROUTE_TO_PICKUP |-> "ARRIVED_AT_PICKUP",
     ARRIVED_AT_PICKUP |-> "IN_PROGRESS", IN_PROGRESS |-> "COMPLETED"]
ParcelNext ==
    [ACCEPTED |-> "PICKED_UP", PICKED_UP |-> "IN_TRANSIT", IN_TRANSIT |-> "DELIVERED"]

NextOf(t) == IF t \in Rides THEN RideNext ELSE ParcelNext
Ended == {"COMPLETED", "DELIVERED"}
Underway == DOMAIN RideNext \cup DOMAIN ParcelNext
Statuses == {"PENDING", "CANCELLED"} \cup Underway \cup Ended

Rows == [st : Statuses, method : {"MPESA", "CASH"}, paid : BOOLEAN, proof : BOOLEAN]

Active(kind) == {t \in kind : trip[t].st \in Underway}

(* What the page shows of a trip.  `paid`: it has read that the payment is *)
(* COMPLETED.                                                              *)
Cards == [id : Trips \cup {NoTrip}, st : Statuses, paid : BOOLEAN]
NoCard == [id |-> NoTrip, st |-> "PENDING", paid |-> FALSE]

Card(t) == [id |-> t, st |-> trip[t].st, paid |-> trip[t].paid]

(* findFirst without an order: any of the active trips.                    *)
FirstActive(kind) == IF Active(kind) = {} THEN {NoCard} ELSE {Card(t) : t \in Active(kind)}

Pages == [at : {"away", "entering", "open"}, loaded : BOOLEAN, loading : BOOLEAN,
          updating : BOOLEAN, proofUploaded : BOOLEAN, ride : Cards, parcel : Cards]

Away == [at |-> "away", loaded |-> FALSE, loading |-> FALSE, updating |-> FALSE,
         proofUploaded |-> FALSE, ride |-> NoCard, parcel |-> NoCard]

(* A request; `id` and `to` are those of a new status, `ride` and `parcel` *)
(* the answer of the other two.  `mine`: its page is still there.          *)
Requests == [for : {"refresh", "silent", "advance"}, at : {"sent", "ok", "error"},
             mine : BOOLEAN, id : Trips \cup {NoTrip}, to : Statuses,
             ride : Cards, parcel : Cards]

Request(for, t, st) ==
    [for |-> for, at |-> "sent", mine |-> TRUE, id |-> t, to |-> st,
     ride |-> NoCard, parcel |-> NoCard]

Read(for) == Request(for, NoTrip, "PENDING")

Uploads == [id : Parcels, at : {"sent", "ok", "error"}, mine : BOOLEAN]

Init ==
    /\ trip \in [Trips -> [st : {"PENDING"}, method : {"MPESA", "CASH"},
                           paid : {FALSE}, proof : {FALSE}]]
    /\ page = Away
    /\ sock = "none"
    /\ news = {} /\ reqs = <<>> /\ uploads = <<>>

-----------------------------------------------------------------------------
(* Asking for the active trips                                             *)

Ask(r) == Len(reqs) < MaxRequests /\ reqs' = Append(reqs, r)

(* ngOnInit up to its await.                                               *)
Open ==
    /\ page.at = "away"
    /\ page' = [Away EXCEPT !.at = "entering", !.loading = TRUE]
    /\ sock' = "connecting"
    /\ Ask(Read("refresh"))
    /\ UNCHANGED <<trip, news, uploads>>

(* The Refresh button, which is disabled while loading.                    *)
Refresh ==
    /\ page.at = "open" /\ ~page.loading
    /\ page' = [page EXCEPT !.loading = TRUE]
    /\ Ask(Read("refresh"))
    /\ UNCHANGED <<trip, sock, news, uploads>>

(* Mutant: the look at initialLoaded is the wrong way round.               *)
SilentUnlessLoaded == IF page.loaded THEN UNCHANGED reqs ELSE Ask(Read("silent"))

SilentRefresh == IF page.loaded THEN Ask(Read("silent")) ELSE UNCHANGED reqs

(* pollTimer, which is set when the first refresh has ended.               *)
Poll ==
    /\ page.at = "open" /\ page.loaded
    /\ SilentRefresh
    /\ UNCHANGED <<trip, page, sock, news, uploads>>

(* tripPaymentCb; the event says of which trip it is.                      *)
NewsArrives(t) ==
    /\ t \in news
    /\ news' = news \ {t}
    /\ IF t \in {page.ride.id, page.parcel.id} THEN SilentRefresh ELSE UNCHANGED reqs
    /\ UNCHANGED <<trip, page, sock, uploads>>

(* Those of s that are in T, in their order, with nobody to wait for them. *)
Left(s, T) ==
    LET kept[i \in 0 .. Len(s)] ==
            IF i = 0 THEN <<>>
            ELSE IF s[i] \in T THEN Append(kept[i - 1], [s[i] EXCEPT !.mine = FALSE])
            ELSE kept[i - 1]
    IN  kept[Len(s)]

(* ngOnDestroy; what was sent already still gets to the server.            *)
Leave ==
    /\ page.at # "away"
    /\ page' = Away
    /\ sock' = "none"
    /\ news' = {}
    /\ reqs' = Left(reqs, {x \in Requests : x.at = "sent" /\ x.for = "advance"})
    /\ uploads' = Left(uploads, {x \in Uploads : x.at = "sent"})
    /\ UNCHANGED trip

(* A reply is used in the order of the requests, unless it may overtake.   *)
Due(i, at) == i \in DOMAIN reqs /\ reqs[i].mine /\ reqs[i].at = at /\ (Overtake \/ i = 1)

Using(i) == reqs' = RemoveAt(reqs, i)

(* Mutant: the proof of the last parcel counts for the next one.           *)
KeepsProof(parcel) == page.proofUploaded

(* A proof is remembered only while the parcel shown is in transit.        *)
ProofStays(parcel) == page.proofUploaded /\ parcel.st = "IN_TRANSIT"

(* refresh and silentRefresh go on.                                        *)
ShowActive(i) ==
    /\ Due(i, "ok") /\ reqs[i].for \in {"refresh", "silent"}
    /\ page' = [page EXCEPT !.ride = reqs[i].ride, !.parcel = reqs[i].parcel,
                            !.proofUploaded = ProofStays(reqs[i].parcel),
                            !.loaded = TRUE,
                            !.loading = @ /\ reqs[i].for = "silent",
                            !.at = "open"]
    /\ Using(i)
    /\ UNCHANGED <<trip, sock, news, uploads>>

(* After a failed first load initialLoaded stays FALSE, and the polls ask  *)
(* for nothing until the rider presses Refresh.                            *)
ReadFailed(i) ==
    /\ Due(i, "error") /\ reqs[i].for \in {"refresh", "silent"}
    /\ page' = [page EXCEPT !.loading = @ /\ reqs[i].for = "silent", !.at = "open"]
    /\ Using(i)
    /\ UNCHANGED <<trip, sock, news, uploads>>

-----------------------------------------------------------------------------
(* Taking a trip forward                                                   *)

Usable == page.at = "open" /\ ~page.loading

(* The button of a card, with the conditions under which it is disabled.   *)
Advance(card) ==
    /\ Usable /\ ~page.updating
    /\ card.id # NoTrip /\ card.st \in DOMAIN NextOf(card.id)
    /\ LET to == NextOf(card.id)[card.st] IN
        /\ to \in Ended => trip[card.id].method = "CASH" \/ card.paid
        /\ to = "DELIVERED" => page.proofUploaded
        /\ Ask(Request("advance", card.id, to))
    /\ page' = [page EXCEPT !.updating = TRUE]
    /\ UNCHANGED <<trip, sock, news, uploads>>

(* advanceRide and advanceParcel go on.  The answer is the row alone: it   *)
(* does not have the payment.                                              *)
Advanced(i) ==
    /\ Due(i, "ok") /\ reqs[i].for = "advance"
    /\ LET card == IF reqs[i].to \in Ended THEN NoCard
                   ELSE [id |-> reqs[i].id, st |-> reqs[i].to, paid |-> FALSE]
       IN  page' = IF reqs[i].id \in Rides
                   THEN [page EXCEPT !.ride = card, !.updating = FALSE]
                   ELSE [page EXCEPT !.parcel = card, !.updating = FALSE]
    /\ Using(i)
    /\ UNCHANGED <<trip, sock, news, uploads>>

AdvanceFailed(i) ==
    /\ Due(i, "error") /\ reqs[i].for = "advance"
    /\ page' = [page EXCEPT !.updating = FALSE]
    /\ Using(i)
    /\ UNCHANGED <<trip, sock, news, uploads>>

(* onProofSelected, the image and then its address.                        *)
SelectProof ==
    /\ Usable /\ page.parcel.id # NoTrip /\ page.parcel.st = "IN_TRANSIT"
    /\ OneUpload => ~page.proofUploaded /\ \A i \in DOMAIN uploads : ~uploads[i].mine
    /\ Len(uploads) < MaxUploads
    /\ uploads' = Append(uploads, [id |-> page.parcel.id, at |-> "sent", mine |-> TRUE])
    /\ UNCHANGED <<trip, page, sock, news, reqs>>

(* It goes on, whichever parcel the page shows by then.                    *)
ProofSelected(i) ==
    /\ i \in DOMAIN uploads /\ uploads[i].mine /\ uploads[i].at # "sent"
    /\ page' = [page EXCEPT !.proofUploaded = @ \/ uploads[i].at = "ok"]
    /\ uploads' = RemoveAt(uploads, i)
    /\ UNCHANGED <<trip, sock, news, reqs>>

-----------------------------------------------------------------------------
(* The server and the world                                                *)

(* Requests reach the server in order, unless one may overtake another.    *)
Arrived(i) ==
    /\ i \in DOMAIN reqs /\ reqs[i].at = "sent"
    /\ Overtake \/ \A j \in 1 .. i - 1 : reqs[j].at # "sent"

(* getRiderActiveRide and getRiderActiveParcel.                            *)
ServeRead(i) ==
    /\ Arrived(i) /\ reqs[i].for \in {"refresh", "silent"}
    /\ \E ride \in FirstActive(Rides), parcel \in FirstActive(Parcels) :
           reqs' = [reqs EXCEPT ![i].at = "ok", ![i].ride = ride, ![i].parcel = parcel]
    /\ UNCHANGED <<trip, page, sock, news, uploads>>

(* The answer of a request whose page is gone is nobody's.                 *)
Answer(s, i, how) ==
    IF s[i].mine THEN [s EXCEPT ![i].at = how] ELSE RemoveAt(s, i)

(* updateRideStatus and updateParcelStatus: the transition, the M-Pesa     *)
(* gate of the last one, cash settled by it.                               *)
MayAdvance(t, st) ==
    /\ trip[t].st \in DOMAIN NextOf(t) /\ NextOf(t)[trip[t].st] = st
    /\ st \in Ended => trip[t].method = "CASH" \/ trip[t].paid

ServeAdvance(i) ==
    /\ Arrived(i) /\ reqs[i].for = "advance"
    /\ LET t == reqs[i].id IN
       IF MayAdvance(t, reqs[i].to)
       THEN /\ trip' = [trip EXCEPT ![t].st = reqs[i].to,
                                    ![t].paid = @ \/ reqs[i].to \in Ended]
            /\ reqs' = Answer(reqs, i, "ok")
       ELSE /\ reqs' = Answer(reqs, i, "error")
            /\ UNCHANGED trip
    /\ UNCHANGED <<page, sock, news, uploads>>

(* uploadProof asks for no status.                                         *)
ServeProof(i) ==
    /\ i \in DOMAIN uploads /\ uploads[i].at = "sent"
    /\ trip' = [trip EXCEPT ![uploads[i].id].proof = TRUE]
    /\ uploads' = Answer(uploads, i, "ok")
    /\ UNCHANGED <<page, sock, news, reqs>>

RequestFails(i) ==
    /\ Faults /\ Arrived(i)
    /\ reqs' = Answer(reqs, i, "error")
    /\ UNCHANGED <<trip, page, sock, news, uploads>>

UploadFails(i) ==
    /\ Faults /\ i \in DOMAIN uploads /\ uploads[i].at = "sent"
    /\ uploads' = Answer(uploads, i, "error")
    /\ UNCHANGED <<trip, page, sock, news, reqs>>

(* The rider accepts a trip on his dashboard.                              *)
Accept(t) ==
    /\ trip[t].st = "PENDING"
    /\ OneParcel /\ t \in Parcels => Active(Parcels) = {}
    /\ trip' = [trip EXCEPT ![t].st = "ACCEPTED"]
    /\ UNCHANGED <<page, sock, news, reqs, uploads>>

(* Passenger or sender calls it off.                                       *)
Cancel(t) ==
    /\ trip[t].st = "ACCEPTED"
    /\ trip' = [trip EXCEPT ![t].st = "CANCELLED"]
    /\ UNCHANGED <<page, sock, news, reqs, uploads>>

(* A prompt ends, confirmed or not: trip:payment goes to the rider.        *)
PromptEnds(t) ==
    /\ trip[t].method = "MPESA" /\ trip[t].st \in Underway /\ ~trip[t].paid
    /\ \E paid \in BOOLEAN : trip' = [trip EXCEPT ![t].paid = paid]
    /\ news' = IF sock = "connected" THEN news \cup {t} ELSE news
    /\ UNCHANGED <<page, sock, reqs, uploads>>

Connect ==
    /\ sock = "connecting"
    /\ sock' = "connected"
    /\ UNCHANGED <<trip, page, news, reqs, uploads>>

Drop ==
    /\ Faults /\ sock = "connected"
    /\ sock' = "connecting"
    /\ news' = {}
    /\ UNCHANGED <<trip, page, reqs, uploads>>

-----------------------------------------------------------------------------
Next ==
    \/ Open \/ Refresh \/ Poll \/ Leave \/ SelectProof \/ Connect \/ Drop
    \/ \E card \in {page.ride, page.parcel} : Advance(card)
    \/ \E t \in Trips : NewsArrives(t) \/ Accept(t) \/ Cancel(t) \/ PromptEnds(t)
    \/ \E i \in 1 .. MaxRequests : \/ ShowActive(i) \/ ReadFailed(i) \/ Advanced(i)
                                   \/ AdvanceFailed(i) \/ ServeRead(i) \/ ServeAdvance(i)
                                   \/ RequestFails(i)
    \/ \E i \in 1 .. MaxUploads : ProofSelected(i) \/ ServeProof(i) \/ UploadFails(i)

Spec == Init /\ [][Next]_vars

(* The timer goes on, replies that came are handled, and a server asked    *)
(* again and again answers.                                                *)
Fairness ==
    /\ WF_vars(Poll)
    /\ WF_vars(\E i \in 1 .. MaxRequests : \/ ShowActive(i) \/ ReadFailed(i)
                                           \/ Advanced(i) \/ AdvanceFailed(i))
    /\ WF_vars(\E i \in 1 .. MaxRequests : ServeAdvance(i))
    /\ SF_vars(\E i \in 1 .. MaxRequests : ServeRead(i))

FairSpec == Spec /\ Fairness
=============================================================================
