-------------------------- MODULE RidesProperties --------------------------
(***************************************************************************)
(* What RidesService should guarantee, and under which circumstances.      *)
(* The properties of the first group survive any interleaving of requests, *)
(* KeepsTripPromise in the form for trips whose requests overlap; those of *)
(* the second hold when the requests on one ride do not overlap            *)
(* (OnePerRide); the last group states what comments of the repository say *)
(* and overlapping requests break.                                         *)
(***************************************************************************)
EXTENDS Rides, Functions

(* The tables hold rows of their types, and every handler record is one.   *)
TypeOK ==
    /\ ride \in [Rides -> RideRows]
    /\ rider \in [Riders -> RiderRows]
    /\ pay \in [Rides -> Row!PayRows]
    /\ conv \in [Rides -> {"NONE", "ACTIVE", "CLOSED"}]
    /\ convTasks \in SUBSET Rides
    /\ pct \in Percentages
    /\ h \in [Procs -> HandlerRecords]

-----------------------------------------------------------------------------
(* Whatever overlaps.                                                      *)

(* A ride under way or finished has a rider, although acceptRide and       *)
(* updateRideStatus write the row without looking at it again and          *)
(* cancelRide may write in between.                                        *)
AssignedWhenUnderWay ==
    \A r \in Rides :
        ride[r].status \in Active \cup {"COMPLETED"} => ride[r].riderId # NoOne

(* No ride is COMPLETED before its payment is, in cash or by M-Pesa: the   *)
(* gate of updateRideStatus reads the payment some awaits before it writes *)
(* the ride.  Holds as long as a COMPLETED payment stays so (~Regress).    *)
CompletedIsPaid ==
    \A r \in Rides : ride[r].status = "COMPLETED" => Row!Paid(r)

(* Every chat belongs to a ride a rider once took, in spite of the task    *)
(* acceptRide leaves behind.                                               *)
ChatHasRider ==
    \A r \in Rides : conv[r] # "NONE" => ride[r].riderId # NoOne

Lifecycle ==
    INSTANCE TripLifecycle WITH
        Trips <- Rides,
        NextStatus <- ALLOWED_STATUS_TRANSITIONS,
        LastStatus <- "COMPLETED",
        Crossing <- IF OnePerRide THEN {} ELSE Rides,
        status <- [r \in Rides |-> ride[r].status],
        assignee <- [r \in Rides |-> ride[r].riderId],
        paid <- [r \in Rides |-> Row!Paid(r)]

(* The split handlers implement the life of a trip done in single steps:   *)
(* every operation in order when the requests on one ride take turns, and  *)
(* otherwise a ride that keeps a rider, stays on the chain and is not      *)
(* finished unpaid (~Regress), whatever the stale writes of acceptRide,    *)
(* updateRideStatus and cancelRide do to each other.                       *)
KeepsTripPromise == Lifecycle!LifeSpec

-----------------------------------------------------------------------------
(* When the requests on one ride do not overlap.                           *)

CompletedBy(k) == {r \in Rides : ride[r].status = "COMPLETED" /\ ride[r].riderId = k}
CreditingFor(k) == {p \in Procs : At(p, "update.creditRider") /\ h[p].rider = k}

(* When no call fails a rider's totals lag only by the handlers still at   *)
(* work: the increments of two rides finished together are both kept, and  *)
(* each is worth what its ride's row says, whatever the commission is now. *)
CreditedExactly ==
    \A k \in Riders :
        /\ rider[k].totalRides + Cardinality(CreditingFor(k))
               = Cardinality(CompletedBy(k))
        /\ rider[k].totalEarnings
               + SumFunctionOnSet([p \in Procs |-> h[p].earned], CreditingFor(k))
               = SumFunctionOnSet([r \in Rides |-> ride[r].riderEarnings], CompletedBy(k))

(* A chat is closed only on a ride that has ended: cancelRide and          *)
(* updateRideStatus close it some awaits after they wrote the ride.        *)
ClosedChatMeansEnded ==
    \A r \in Rides : conv[r] = "CLOSED" => ride[r].status \in Ended

-----------------------------------------------------------------------------
(* What the comments say.                                                  *)

(* "Ride already taken": a ride that has a rider is refused to others.     *)
NotTakenTwice ==
    [][\A r \in Rides :
          ride[r].riderId # NoOne => ride'[r].riderId = ride[r].riderId]_ride

(* "updated after each completed trip": a trip is counted once, for one    *)
(* rider.                                                                  *)
TotalsCountTrips ==
    SumFunctionOnSet([k \in Riders |-> rider[k].totalRides], Riders)
        <= Cardinality({r \in Rides : ride[r].riderId # NoOne})

(* A chat is "auto-closed on completion" of its ride, and on cancellation. *)
EndedRideClosesChat ==
    \A r \in Rides :
        ride[r].status \in Ended /\ ride[r].riderId # NoOne ~> conv[r] = "CLOSED"
=============================================================================
