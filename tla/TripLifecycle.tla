--------------------------- MODULE TripLifecycle ---------------------------
(***************************************************************************)
(* What a ride (or parcel delivery) promises to the two people on it:      *)
(* the life of one trip with every operation done in a single step.  A     *)
(* trip is booked, taken by one rider who keeps it, moved along the chain  *)
(* of statuses one link at a time, finished only once it is paid, and      *)
(* withdrawn only before the rider sets off.                               *)
(*                                                                         *)
(* On the trips of Crossing, whose requests may overlap, an operation may  *)
(* also come late, on a trip that has moved on since it was allowed: then  *)
(* a status may be lost or come back and a trip may change riders, but no  *)
(* trip loses the rider it has, is on its way without one, moves before it *)
(* was booked, takes a status outside the chain or, where payments are not *)
(* undone, is finished unpaid.                                             *)
(***************************************************************************)
CONSTANTS
    Trips,
    Riders,
    NoOne,          \* the riderId of a trip nobody has taken
    NextStatus,     \* the chain of statuses: status |-> the one that follows
    LastStatus,     \* the end of the chain
    Crossing,       \* the trips whose requests may overlap
    Regress         \* TRUE: a payment that was complete may be undone

VARIABLES status, assignee, paid

lifeVars == <<status, assignee, paid>>

LifeInit ==
    /\ status = [t \in Trips |-> "NONE"]
    /\ assignee = [t \in Trips |-> NoOne]
    /\ paid = [t \in Trips |-> FALSE]

Move(t, s) == status' = [status EXCEPT ![t] = s]

(* The last status is for paid trips, unless payments may be undone.       *)
MayTake(t, s) == s = LastStatus => paid[t] \/ Regress

Book(t) ==
    /\ status[t] = "NONE"
    /\ Move(t, "PENDING")
    /\ UNCHANGED <<assignee, paid>>

Assign(t, k) ==
    /\ status[t] = "PENDING"
    /\ Move(t, "ACCEPTED")
    /\ assignee' = [assignee EXCEPT ![t] = k]
    /\ UNCHANGED paid

Advance(t) ==
    /\ status[t] \in DOMAIN NextStatus
    /\ MayTake(t, NextStatus[status[t]])
    /\ Move(t, NextStatus[status[t]])
    /\ UNCHANGED <<assignee, paid>>

Withdraw(t) ==
    /\ status[t] \in {"PENDING", "ACCEPTED"}
    /\ Move(t, "CANCELLED")
    /\ UNCHANGED <<assignee, paid>>

Pay(t) ==
    /\ paid' = [paid EXCEPT ![t] = TRUE]
    /\ UNCHANGED <<status, assignee>>

Unpay(t) ==
    /\ Regress
    /\ paid' = [paid EXCEPT ![t] = FALSE]
    /\ UNCHANGED <<status, assignee>>

TripStep(t) ==
    \/ Book(t) \/ Advance(t) \/ Withdraw(t) \/ Pay(t) \/ Unpay(t)
    \/ \E k \in Riders : Assign(t, k)

LateAssign(t, k) ==
    /\ Move(t, "ACCEPTED")
    /\ assignee' = [assignee EXCEPT ![t] = k]
    /\ UNCHANGED paid

LateAdvance(t) ==
    /\ assignee[t] # NoOne
    /\ \E s \in DOMAIN NextStatus :
          MayTake(t, NextStatus[s]) /\ Move(t, NextStatus[s])
    /\ UNCHANGED <<assignee, paid>>

LateWithdraw(t) ==
    /\ Move(t, "CANCELLED")
    /\ UNCHANGED <<assignee, paid>>

LateStep(t) ==
    /\ t \in Crossing
    /\ status[t] # "NONE"
    /\ \/ LateAdvance(t) \/ LateWithdraw(t)
       \/ \E k \in Riders : LateAssign(t, k)

LifeNext == \E t \in Trips : TripStep(t) \/ LateStep(t)

LifeSpec == LifeInit /\ [][LifeNext]_lifeVars
=============================================================================
