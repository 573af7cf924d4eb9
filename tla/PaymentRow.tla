---------------------------- MODULE PaymentRow ----------------------------
(***************************************************************************)
(* The row of table `payments` that belongs to a trip, as the trip         *)
(* handlers see it: there is at most one (rideId and parcelId are          *)
(* @unique), and it moves when the passenger starts or resends a payment,  *)
(* when the provider's webhook arrives and when a rider collects cash.     *)
(*                                                                         *)
(* This is the promise that module Payments is checked to keep.  Regress   *)
(* says whether the promise is the one a careful reader of the code would  *)
(* state (a COMPLETED row is final) or the one the code keeps when         *)
(* handlers of one payment overlap (a stale handler may overwrite it).     *)
(***************************************************************************)
CONSTANTS
    Trips,      \* the rides (or parcels) a payment may belong to
    Regress     \* TRUE: overlapping handlers may overwrite a COMPLETED row

VARIABLE pay    \* pay[t]: the payments row of trip t, NoPay before it exists

PayStatuses == {"NONE", "PROCESSING", "COMPLETED", "FAILED"}
PayMethods == {"MPESA", "CASH"}
PayRows == [st : PayStatuses, method : PayMethods \cup {"NONE"}]
NoPay == [st |-> "NONE", method |-> "NONE"]

Paid(t) == pay[t].st = "COMPLETED"

RowInit == pay = [t \in Trips |-> NoPay]

(* initiatePayment: the row is created PROCESSING, for cash as well.       *)
CreateRow(t, m) ==
    /\ pay[t].st = "NONE"
    /\ pay' = [pay EXCEPT ![t] = [st |-> "PROCESSING", method |-> m]]

(* A row the provider's answers and the passenger's retries may move.      *)
Open(t) ==
    /\ pay[t].st # "NONE"
    /\ Regress \/ (pay[t].method = "MPESA" /\ ~Paid(t))

(* A success webhook settles an open row, FAILED ones included.            *)
SettleRow(t) ==
    /\ Open(t)
    /\ pay' = [pay EXCEPT ![t].st = "COMPLETED"]

(* A failure webhook, or the background STK error handler.                 *)
FailRow(t) ==
    /\ Open(t)
    /\ pay' = [pay EXCEPT ![t].st = "FAILED"]

(* resendPayment puts the same row back to PROCESSING.                     *)
ResendRow(t) ==
    /\ Open(t)
    /\ pay' = [pay EXCEPT ![t].st = "PROCESSING"]

(* The rider completes a cash trip: the row is created or overwritten.     *)
CollectCash(t) ==
    pay' = [pay EXCEPT ![t] = [st |-> "COMPLETED", method |-> "CASH"]]

(* What the payments service and its provider do to the row of one trip.   *)
PaymentStep(t) ==
    \/ \E m \in PayMethods : CreateRow(t, m)
    \/ SettleRow(t)
    \/ FailRow(t)
    \/ ResendRow(t)

RowNext == \E t \in Trips : PaymentStep(t) \/ CollectCash(t)

RowSpec == RowInit /\ [][RowNext]_pay
=============================================================================
