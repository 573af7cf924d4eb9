------------------------------ MODULE Parcels ------------------------------
(***************************************************************************)
(* ParcelsService: booking, accepting, delivering, cancelling and rating a *)
(* parcel.                                                                 *)
(*                                                                         *)
(* As in Rides, a handler is a process of Procs and each of its database   *)
(* calls is one action; every write is an unconditional update by id.      *)
(* What differs: the chain is shorter, acceptParcel asks for a verified    *)
(* rider only and awaits the conversation it creates, the sender and the   *)
(* rider may both cancel, and the sender rates the rider afterwards.       *)
(*                                                                         *)
(* The requests on the parcels of InTurn never overlap, those on the other *)
(* parcels may; both kinds meet in the rows of their riders.               *)
(***************************************************************************)
EXTENDS Integers, FiniteSets, Functions

CONSTANTS
    Parcels,        \* ids of parcels
    InTurn,         \* those whose requests come one at a time
    Riders,         \* ids of riders
    Procs,          \* requests being served at the same time
    NoOne,          \* riderId: null
    Fee,            \* Fee[r]: parcel.deliveryFee, in KES
    Methods,        \* Methods[r]: the payment methods the sender may choose
    Percentages,    \* values an admin gives COMMISSION_PERCENTAGE
    Scores,         \* Scores[r]: the scores its sender may give
    WithProof,      \* bound: the parcels whose rider uploads a proof
    MaxEarned,      \* bound on rider.totalEarnings
    Regress,        \* see PaymentRow
    Faults          \* the parcels on which a call may fail, or the server stop

ASSUME ParcelsAssumption ==
    /\ IsFiniteSet(Parcels)
    /\ NoOne \notin Riders \cup Parcels
    /\ InTurn \subseteq Parcels
    /\ Fee \in [Parcels -> Nat]
    /\ Methods \in [Parcels -> SUBSET {"MPESA", "CASH"}]
    /\ Percentages \subseteq 0 .. 100
    /\ Scores \in [Parcels -> SUBSET (1 .. 5)]
    /\ WithProof \subseteq Parcels
    /\ MaxEarned \in Nat
    /\ Regress \in BOOLEAN
    /\ Faults \subseteq Parcels

VARIABLES
    parcel,     \* table parcels
    rider,      \* table riders
    pay,        \* table payments, by parcel
    conv,       \* table conversations, by parcel
    rating,     \* table ratings, by parcel
    pct,        \* the setting COMMISSION_PERCENTAGE
    h           \* h[p]: the handler process p is running

vars == <<parcel, rider, pay, conv, rating, pct, h>>

Row == INSTANCE PaymentRow WITH Trips <- Parcels

-----------------------------------------------------------------------------
(* Statuses and rows *)

PARCEL_TRANSITIONS ==
    [ACCEPTED |-> "PICKED_UP", PICKED_UP |-> "IN_TRANSIT", IN_TRANSIT |-> "DELIVERED"]

UnderWay == {"ACCEPTED", "PICKED_UP", "IN_TRANSIT"}
Ended == {"DELIVERED", "CANCELLED"}
Statuses == {"NONE", "PENDING"} \cup UnderWay \cup Ended

ParcelRows ==
    [status : Statuses, riderId : Riders \cup {NoOne},
     method : {"NONE", "MPESA", "CASH"}, riderEarnings : Nat, proof : BOOLEAN]

NoParcel == [status |-> "NONE", riderId |-> NoOne, method |-> "NONE",
             riderEarnings |-> 0, proof |-> FALSE]

(* ratingAverage is kept with one decimal: in tenths here.                 *)
RiderRows == [isVerified : BOOLEAN, totalEarnings : Nat, ratingAverage : 0 .. 50]

RatingRows == [score : 0 .. 5, riderId : Riders \cup {NoOne}]
NoRating == [score |-> 0, riderId |-> NoOne]
Rated(r) == rating[r].score # 0

(* The fee minus the commission, in hundredths of a shilling.              *)
Earnings(r, percentage) == Fee[r] * (100 - percentage)

RatingsOf(k) == {r \in Parcels : Rated(r) /\ rating[r].riderId = k}

(* parseFloat(average.toFixed(1)) of the scores of the parcels in R.       *)
Average(R) ==
    LET n == Cardinality(R)
        sum == SumFunctionOnSet([r \in Parcels |-> rating[r].score], R)
    IN  IF n = 0 THEN 0 ELSE (20 * sum + n) \div (2 * n)

-----------------------------------------------------------------------------
(* Handlers.  seen is what an earlier read returned (the parcel's status,  *)
(* or the payment row's), earned the riderEarnings the handler's update    *)
(* returned, score the sender's, average what the list of ratings gave.    *)

Places ==
    {"idle", "accept.findParcel", "accept.update", "accept.createConversation",
     "update.findPayment", "update.settleCash", "update.update",
     "update.creditRider", "findConversation", "closeConversation",
     "cancel.update", "proof.update",
     "rate.create", "rate.findMany", "rate.updateRider"}

HandlerRecords ==
    [pc : Places, parcel : Parcels \cup {NoOne}, rider : Riders \cup {NoOne},
     to : Statuses, seen : Statuses \cup Row!PayStatuses,
     earned : Nat, score : 0 .. 5, average : 0 .. 50]

Idle == [pc |-> "idle", parcel |-> NoOne, rider |-> NoOne, to |-> "NONE",
         seen |-> "NONE", earned |-> 0, score |-> 0, average |-> 0]

Request(pc, r, k, to, seen) ==
    [Idle EXCEPT !.pc = pc, !.parcel = r, !.rider = k, !.to = to, !.seen = seen]

(* Process p can take a new request on parcel r.                           *)
Free(p, r) ==
    /\ h[p].pc = "idle"
    /\ r \in InTurn => \A q \in Procs : h[q].parcel # r

At(p, pc) == h[p].pc = pc
Goto(p, pc) == h' = [h EXCEPT ![p].pc = pc]
Return(p) == h' = [h EXCEPT ![p] = Idle]

Init ==
    /\ parcel = [r \in Parcels |-> NoParcel]
    /\ rider = [k \in Riders |-> [isVerified |-> FALSE, totalEarnings |-> 0,
                                  ratingAverage |-> 0]]
    /\ Row!RowInit
    /\ conv = [r \in Parcels |-> "NONE"]
    /\ rating = [r \in Parcels |-> NoRating]
    /\ pct \in Percentages
    /\ h = [p \in Procs |-> Idle]

-----------------------------------------------------------------------------
(* createParcel: one insert; the broadcast changes no state.               *)
CreateParcel(r, m) ==
    /\ parcel[r].status = "NONE"
    /\ parcel' = [parcel EXCEPT ![r] = [@ EXCEPT !.status = "PENDING", !.method = m]]
    /\ UNCHANGED <<rider, pay, conv, rating, pct, h>>

(* acceptParcel, the rider's row: verified, but not "available".           *)
AcceptFindRider(p, k, r) ==
    /\ Free(p, r)
    /\ parcel[r].status # "NONE"
    /\ rider[k].isVerified
    /\ h' = [h EXCEPT ![p] = Request("accept.findParcel", r, k, "NONE", "NONE")]
    /\ UNCHANGED <<parcel, rider, pay, conv, rating, pct>>

AcceptFindParcel(p) ==
    /\ At(p, "accept.findParcel")
    /\ \/ parcel[h[p].parcel].status = "PENDING" /\ Goto(p, "accept.update")
       \/ parcel[h[p].parcel].status # "PENDING" /\ Return(p)
    /\ UNCHANGED <<parcel, rider, pay, conv, rating, pct>>

(* Mutant: the conversation is left to an attempt that may never be made.  *)
AcceptWithoutChat(p) ==
    /\ At(p, "accept.update")
    /\ parcel' = [parcel EXCEPT ![h[p].parcel] =
                     [@ EXCEPT !.status = "ACCEPTED", !.riderId = h[p].rider]]
    /\ Return(p)
    /\ UNCHANGED <<rider, pay, conv, rating, pct>>

(* ... the update, by id only, whatever the row holds by now.              *)
AcceptUpdate(p) ==
    /\ At(p, "accept.update")
    /\ parcel' = [parcel EXCEPT ![h[p].parcel] =
                     [@ EXCEPT !.status = "ACCEPTED", !.riderId = h[p].rider]]
    /\ Goto(p, "accept.createConversation")
    /\ UNCHANGED <<rider, pay, conv, rating, pct>>

(* ... and the conversation, awaited: parcelId is @unique, and a violation *)
(* fails the request after the parcel was taken.                           *)
AcceptCreateConversation(p) ==
    /\ At(p, "accept.createConversation")
    /\ conv' = [conv EXCEPT ![h[p].parcel] = IF @ = "NONE" THEN "ACTIVE" ELSE @]
    /\ Return(p)
    /\ UNCHANGED <<parcel, rider, pay, rating, pct>>

(* updateParcelStatus, the parcel's row: this rider's, and the next link.  *)
UpdateFindParcel(p, k, r) ==
    /\ Free(p, r)
    /\ parcel[r].riderId = k
    /\ parcel[r].status \in DOMAIN PARCEL_TRANSITIONS
    /\ LET to == PARCEL_TRANSITIONS[parcel[r].status]
           pc == IF to = "DELIVERED" THEN "update.findPayment" ELSE "update.update"
       IN  h' = [h EXCEPT ![p] = Request(pc, r, k, to, parcel[r].status)]
    /\ UNCHANGED <<parcel, rider, pay, conv, rating, pct>>

(* Mutant: the gate takes any payment row for a completed one.             *)
GateTakesAnyRow(p) ==
    /\ At(p, "update.findPayment")
    /\ parcel[h[p].parcel].method = "MPESA"
    /\ \/ pay[h[p].parcel].st # "NONE" /\ Goto(p, "update.update")
       \/ pay[h[p].parcel].st = "NONE" /\ Return(p)
    /\ UNCHANGED <<parcel, rider, pay, conv, rating, pct>>

(* ... delivering a parcel paid by M-Pesa: refused unless paid.            *)
UpdateFindMpesaPayment(p) ==
    /\ At(p, "update.findPayment")
    /\ parcel[h[p].parcel].method = "MPESA"
    /\ \/ Row!Paid(h[p].parcel) /\ Goto(p, "update.update")
       \/ ~Row!Paid(h[p].parcel) /\ Return(p)
    /\ UNCHANGED <<parcel, rider, pay, conv, rating, pct>>

(* ... delivering one paid in cash: look the payment row up,               *)
UpdateFindCashPayment(p) ==
    /\ At(p, "update.findPayment")
    /\ parcel[h[p].parcel].method = "CASH"
    /\ LET row == pay[h[p].parcel].st
           pc == IF row = "COMPLETED" THEN "update.update" ELSE "update.settleCash"
       IN  h' = [h EXCEPT ![p] = [@ EXCEPT !.seen = row, !.pc = pc]]
    /\ UNCHANGED <<parcel, rider, pay, conv, rating, pct>>

(* and settle it; the unique index refuses a second row.                   *)
UpdateSettleCash(p) ==
    /\ At(p, "update.settleCash")
    /\ IF h[p].seen = "NONE" /\ pay[h[p].parcel].st # "NONE"
       THEN Return(p) /\ UNCHANGED pay
       ELSE Goto(p, "update.update") /\ Row!CollectCash(h[p].parcel)
    /\ UNCHANGED <<parcel, rider, conv, rating, pct>>

(* ... the update, with what the rider earned when it is a delivery.  The  *)
(* proof of delivery is not asked for here.                                *)
UpdateParcel(p) ==
    /\ At(p, "update.update")
    /\ LET r == h[p].parcel
           earned == Earnings(r, pct)
       IN  IF h[p].to = "DELIVERED"
           THEN /\ parcel' = [parcel EXCEPT ![r] =
                       [@ EXCEPT !.status = h[p].to, !.riderEarnings = earned]]
                /\ h' = [h EXCEPT ![p] =
                       [@ EXCEPT !.pc = "update.creditRider", !.earned = earned]]
           ELSE parcel' = [parcel EXCEPT ![r].status = h[p].to] /\ Return(p)
    /\ UNCHANGED <<rider, pay, conv, rating, pct>>

(* ... the rider's earnings: an increment; totalRides is not touched.      *)
UpdateCreditRider(p) ==
    /\ At(p, "update.creditRider")
    /\ rider[h[p].rider].totalEarnings + h[p].earned <= MaxEarned
    /\ rider' = [rider EXCEPT ![h[p].rider].totalEarnings = @ + h[p].earned]
    /\ Goto(p, "findConversation")
    /\ UNCHANGED <<parcel, pay, conv, rating, pct>>

(* Mutant: a parcel may be cancelled on its way, too.                      *)
CancelAnything(p, r) ==
    /\ Free(p, r)
    /\ parcel[r].status # "NONE"
    /\ h' = [h EXCEPT ![p] = Request("cancel.update", r, NoOne, "CANCELLED",
                                     parcel[r].status)]
    /\ UNCHANGED <<parcel, rider, pay, conv, rating, pct>>

(* cancelParcel: sender or assigned rider, not once it is picked up.       *)
CancelFindParcel(p, r) ==
    /\ Free(p, r)
    /\ parcel[r].status \in {"PENDING", "ACCEPTED"}
    /\ h' = [h EXCEPT ![p] = Request("cancel.update", r, NoOne, "CANCELLED",
                                     parcel[r].status)]
    /\ UNCHANGED <<parcel, rider, pay, conv, rating, pct>>

CancelUpdate(p) ==
    /\ At(p, "cancel.update")
    /\ parcel' = [parcel EXCEPT ![h[p].parcel].status = "CANCELLED"]
    /\ IF h[p].seen = "ACCEPTED" THEN Goto(p, "findConversation") ELSE Return(p)
    /\ UNCHANGED <<rider, pay, conv, rating, pct>>

(* The end of a delivery and of a cancellation.                            *)
FindConversation(p) ==
    /\ At(p, "findConversation")
    /\ IF conv[h[p].parcel] = "NONE" THEN Return(p) ELSE Goto(p, "closeConversation")
    /\ UNCHANGED <<parcel, rider, pay, conv, rating, pct>>

CloseConversation(p) ==
    /\ At(p, "closeConversation")
    /\ conv' = [conv EXCEPT ![h[p].parcel] = "CLOSED"]
    /\ Return(p)
    /\ UNCHANGED <<parcel, rider, pay, rating, pct>>

(* uploadProof: at any status, by the rider the parcel had when read.      *)
ProofFindParcel(p, r) ==
    /\ Free(p, r)
    /\ r \in WithProof
    /\ parcel[r].riderId # NoOne
    /\ h' = [h EXCEPT ![p] = Request("proof.update", r, NoOne, "NONE", "NONE")]
    /\ UNCHANGED <<parcel, rider, pay, conv, rating, pct>>

ProofUpdate(p) ==
    /\ At(p, "proof.update")
    /\ parcel' = [parcel EXCEPT ![h[p].parcel].proof = TRUE]
    /\ Return(p)
    /\ UNCHANGED <<rider, pay, conv, rating, pct>>

-----------------------------------------------------------------------------
(* rateParcel, the parcel's row: delivered and not rated yet.              *)
RateFindParcel(p, r, s) ==
    /\ Free(p, r)
    /\ parcel[r].status = "DELIVERED"
    /\ parcel[r].riderId # NoOne
    /\ ~Rated(r)
    /\ h' = [h EXCEPT ![p] =
                [Request("rate.create", r, parcel[r].riderId, "NONE", "NONE")
                    EXCEPT !.score = s]]
    /\ UNCHANGED <<parcel, rider, pay, conv, rating, pct>>

(* ... the insert; parcelId is @unique, a second rating fails the request. *)
RateCreate(p) ==
    /\ At(p, "rate.create")
    /\ IF Rated(h[p].parcel)
       THEN Return(p) /\ UNCHANGED rating
       ELSE /\ rating' = [rating EXCEPT ![h[p].parcel] =
                             [score |-> h[p].score, riderId |-> h[p].rider]]
            /\ Goto(p, "rate.findMany")
    /\ UNCHANGED <<parcel, rider, pay, conv, pct>>

(* Mutant: the average is computed without the rating just given.          *)
RateLeavesOwnOut(p) ==
    /\ At(p, "rate.findMany")
    /\ h' = [h EXCEPT ![p] = [@ EXCEPT !.pc = "rate.updateRider",
                    !.average = Average(RatingsOf(h[p].rider) \ {h[p].parcel})]]
    /\ UNCHANGED <<parcel, rider, pay, conv, rating, pct>>

(* ... the list of the rider's ratings, of which only the average stays    *)
RateFindMany(p) ==
    /\ At(p, "rate.findMany")
    /\ h' = [h EXCEPT ![p] = [@ EXCEPT !.pc = "rate.updateRider",
                                       !.average = Average(RatingsOf(h[p].rider))]]
    /\ UNCHANGED <<parcel, rider, pay, conv, rating, pct>>

(* ... and is written, whatever was rated meanwhile.                       *)
RateUpdateRider(p) ==
    /\ At(p, "rate.updateRider")
    /\ rider' = [rider EXCEPT ![h[p].rider].ratingAverage = h[p].average]
    /\ Return(p)
    /\ UNCHANGED <<parcel, pay, conv, rating, pct>>

-----------------------------------------------------------------------------
(* The rest of the backend, as far as these rows are concerned.            *)

(* AdminService.setRiderVerification, in the middle of anything.           *)
SetVerified(k, b) ==
    /\ rider' = [rider EXCEPT ![k].isVerified = b]
    /\ UNCHANGED <<parcel, pay, conv, rating, pct, h>>

(* AdminService.updateSettings.                                            *)
SetCommission(c) ==
    /\ pct' = c
    /\ UNCHANGED <<parcel, rider, pay, conv, rating, h>>

(* PaymentsService and the provider: any step its module allows the row.   *)
PaymentMoves(r) ==
    /\ parcel[r].status # "NONE"
    /\ Row!PaymentStep(r)
    /\ UNCHANGED <<parcel, rider, conv, rating, pct, h>>

(* A database call throws, or the process is restarted.                    *)
HandlerFails(p) ==
    /\ h[p].pc # "idle" /\ h[p].parcel \in Faults
    /\ Return(p)
    /\ UNCHANGED <<parcel, rider, pay, conv, rating, pct>>

HandlerStep(p) ==
    \/ AcceptFindParcel(p) \/ AcceptUpdate(p) \/ AcceptCreateConversation(p)
    \/ UpdateFindMpesaPayment(p) \/ UpdateFindCashPayment(p)
    \/ UpdateSettleCash(p) \/ UpdateParcel(p) \/ UpdateCreditRider(p)
    \/ CancelUpdate(p) \/ FindConversation(p) \/ CloseConversation(p)
    \/ ProofUpdate(p)
    \/ RateCreate(p) \/ RateFindMany(p) \/ RateUpdateRider(p)

NewRequest(p) ==
    \E r \in Parcels :
        \/ \E k \in Riders : AcceptFindRider(p, k, r) \/ UpdateFindParcel(p, k, r)
        \/ CancelFindParcel(p, r)
        \/ ProofFindParcel(p, r)
        \/ \E s \in Scores[r] : RateFindParcel(p, r, s)

Environment ==
    \/ \E r \in Parcels : \E m \in Methods[r] : CreateParcel(r, m)
    \/ \E k \in Riders, b \in BOOLEAN : SetVerified(k, b)
    \/ \E c \in Percentages : SetCommission(c)
    \/ \E r \in Parcels : PaymentMoves(r)

Next ==
    \/ \E p \in Procs : HandlerStep(p) \/ NewRequest(p) \/ HandlerFails(p)
    \/ Environment

Spec == Init /\ [][Next]_vars
=============================================================================
