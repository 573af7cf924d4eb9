------------------------- MODULE ParcelsProperties -------------------------
(***************************************************************************)
(* What ParcelsService should guarantee: on every parcel whatever          *)
(* overlaps, and on the parcels whose requests come one at a time.         *)
(***************************************************************************)
EXTENDS Parcels

(* The tables hold rows of their types, and every handler record is one.   *)
TypeOK ==
    /\ parcel \in [Parcels -> ParcelRows]
    /\ rider \in [Riders -> RiderRows]
    /\ pay \in [Parcels -> Row!PayRows]
    /\ conv \in [Parcels -> {"NONE", "ACTIVE", "CLOSED"}]
    /\ rating \in [Parcels -> RatingRows]
    /\ pct \in Percentages
    /\ h \in [Procs -> HandlerRecords]

-----------------------------------------------------------------------------
(* Whatever overlaps.                                                      *)

(* No parcel is DELIVERED before it is paid, in cash or by M-Pesa, and by  *)
(* a rider: the gate of updateParcelStatus reads the payment some awaits   *)
(* before it writes the parcel, and two cancellations may write meanwhile. *)
(* Holds as long as a COMPLETED payment stays so (~Regress).               *)
DeliveredIsPaid ==
    \A r \in Parcels :
        parcel[r].status = "DELIVERED" => Row!Paid(r) /\ parcel[r].riderId # NoOne

Rating(k) == {p \in Procs : h[p].pc \in {"rate.findMany", "rate.updateRider"}
                            /\ h[p].rider = k}

(* A rider's average is the average of ratings the rider got, of one at    *)
(* least once a rating is through whose request did not fail, although     *)
(* rateParcel computes it from a list read before others were stored.      *)
AverageOfOwnRatings ==
    \A k \in Riders : \E R \in SUBSET RatingsOf(k) :
        /\ rider[k].ratingAverage = Average(R)
        /\ R = {} => RatingsOf(k) \subseteq Faults \/ Rating(k) # {}

Lifecycle ==
    INSTANCE TripLifecycle WITH
        Trips <- Parcels,
        NextStatus <- PARCEL_TRANSITIONS,
        LastStatus <- "DELIVERED",
        Crossing <- Parcels \ InTurn,
        status <- [r \in Parcels |-> parcel[r].status],
        assignee <- [r \in Parcels |-> parcel[r].riderId],
        paid <- [r \in Parcels |-> Row!Paid(r)]

(* The split handlers implement the life of a trip done in single steps:   *)
(* in order on the parcels whose requests take turns, whatever happens to  *)
(* the others; and on the others a parcel keeps a rider, stays on the      *)
(* chain and is not delivered unpaid (~Regress).                           *)
KeepsTripPromise == Lifecycle!LifeSpec

-----------------------------------------------------------------------------
(* On the parcels of InTurn.                                               *)

(* When no call fails, a parcel nobody is working on has a chat as long as *)
(* it is with a rider and a closed one afterwards: acceptParcel awaits the *)
(* conversation, so that unlike a ride's it is never missed by the end.    *)
ChatFollowsParcel ==
    \A r \in InTurn \ Faults :
        (\A p \in Procs : h[p].parcel # r) =>
            /\ parcel[r].status \in UnderWay <=> conv[r] = "ACTIVE"
            /\ parcel[r].status = "DELIVERED" => conv[r] = "CLOSED"
            /\ conv[r] = "CLOSED" => parcel[r].status \in Ended
=============================================================================
