------------------------------- MODULE Rides -------------------------------
(***************************************************************************)
(* RidesService: booking, accepting, moving along and cancelling a ride.   *)
(*                                                                         *)
(* No handler holds a lock or a transaction: each is a chain of awaited    *)
(* database calls, and every write is an unconditional update by id that   *)
(* trusts what was read some awaits earlier.  A handler is therefore one   *)
(* process of Procs, and each of its database calls is one action here, so *)
(* that two requests interleave the way two Node.js requests do.           *)
(*                                                                         *)
(* A request that a check refuses has no effect on the database, so the    *)
(* first read of a handler is enabled only when its check passes; a check  *)
(* that comes later sends the process back to Idle.                        *)
(***************************************************************************)
EXTENDS Naturals, FiniteSets

CONSTANTS
    Rides,          \* ids of rides
    Riders,         \* ids of riders
    Procs,          \* requests being served at the same time
    NoOne,          \* riderId: null
    Fare,           \* Fare[r]: ride.estimatedFare, in KES
    Percentages,    \* values an admin gives COMMISSION_PERCENTAGE
    MaxCompletions, \* bound on rider.totalRides
    OnePerRide,     \* TRUE: the requests on one ride never overlap
    Regress,        \* see PaymentRow
    Faults          \* TRUE: a database call may fail, or the server stop

ASSUME RidesAssumption ==
    /\ IsFiniteSet(Rides) /\ IsFiniteSet(Procs)
    /\ NoOne \notin Riders \cup Rides
    /\ Fare \in [Rides -> Nat]
    /\ Percentages \subseteq 0 .. 100
    /\ MaxCompletions \in Nat
    /\ OnePerRide \in BOOLEAN
    /\ Regress \in BOOLEAN
    /\ Faults \in BOOLEAN

VARIABLES
    ride,       \* table rides
    rider,      \* table riders
    pay,        \* table payments, by ride
    conv,       \* table conversations, by ride
    convTasks,  \* rides whose createConversation was fired and not awaited
    pct,        \* the setting COMMISSION_PERCENTAGE
    h           \* h[p]: the handler process p is running

vars == <<ride, rider, pay, conv, convTasks, pct, h>>

Row == INSTANCE PaymentRow WITH Trips <- Rides

-----------------------------------------------------------------------------
(* Statuses and rows *)

(* Mutant: the chain of the parcels.                                       *)
ParcelChain ==
    [ACCEPTED |-> "PICKED_UP", PICKED_UP |-> "IN_TRANSIT", IN_TRANSIT |-> "DELIVERED"]

ALLOWED_STATUS_TRANSITIONS ==
    [ACCEPTED           |-> "EN_ROUTE_TO_PICKUP",
     EN_ROUTE_TO_PICKUP |-> "ARRIVED_AT_PICKUP",
     ARRIVED_AT_PICKUP  |-> "IN_PROGRESS",
     IN_PROGRESS        |-> "COMPLETED"]

Active == {"ACCEPTED", "EN_ROUTE_TO_PICKUP", "ARRIVED_AT_PICKUP", "IN_PROGRESS"}
Ended == {"COMPLETED", "CANCELLED"}
Statuses == {"NONE", "PENDING"} \cup Active \cup Ended

RideRows ==
    [status : Statuses, riderId : Riders \cup {NoOne},
     method : {"NONE", "MPESA", "CASH"}, riderEarnings : Nat]

NoRide == [status |-> "NONE", riderId |-> NoOne, method |-> "NONE",
           riderEarnings |-> 0]

(* eligible: isVerified and isAvailable, which acceptRide reads together.  *)
RiderRows ==
    [eligible : BOOLEAN, totalRides : Nat, totalEarnings : Nat]

(* finalFare minus the commission, in hundredths of a shilling.            *)
Earnings(r, percentage) == Fare[r] * (100 - percentage)

-----------------------------------------------------------------------------
(* Handlers.  pc names the database call the handler makes next; ride and  *)
(* rider are the request's parameters, to its newStatus; seen is what an   *)
(* earlier read returned (the ride's status, or the payment row's) and     *)
(* earned the riderEarnings the handler's own update returned.             *)

Places ==
    {"idle", "accept.findRide", "accept.update", "update.findPayment",
     "update.settleCash", "update.update", "update.creditRider",
     "findConversation", "closeConversation", "cancel.update"}

HandlerRecords ==
    [pc : Places, ride : Rides \cup {NoOne}, rider : Riders \cup {NoOne},
     to : Statuses, seen : Statuses \cup {"PROCESSING", "FAILED"},
     earned : Nat]

Idle == [pc |-> "idle", ride |-> NoOne, rider |-> NoOne, to |-> "NONE",
         seen |-> "NONE", earned |-> 0]

Request(pc, r, k, to, seen) ==
    [pc |-> pc, ride |-> r, rider |-> k, to |-> to, seen |-> seen,
     earned |-> 0]

(* Process p can take a new request on ride r.                             *)
Free(p, r) ==
    /\ h[p].pc = "idle"
    /\ OnePerRide => \A q \in Procs : h[q].ride # r

At(p, pc) == h[p].pc = pc
Goto(p, pc) == h' = [h EXCEPT ![p].pc = pc]
Return(p) == h' = [h EXCEPT ![p] = Idle]

Init ==
    /\ ride = [r \in Rides |-> NoRide]
    /\ rider = [k \in Riders |-> [eligible |-> FALSE, totalRides |-> 0,
                                  totalEarnings |-> 0]]
    /\ Row!RowInit
    /\ conv = [r \in Rides |-> "NONE"]
    /\ convTasks = {}
    /\ pct \in Percentages
    /\ h = [p \in Procs |-> Idle]

-----------------------------------------------------------------------------
(* Mutants: what a slip in one of the handlers below would do.             *)

(* acceptRide forgets that the ride must still be PENDING.                 *)
AcceptAnyRide(p) ==
    /\ At(p, "accept.findRide")
    /\ Goto(p, "accept.update")
    /\ UNCHANGED <<ride, rider, pay, conv, convTasks, pct>>

(* acceptRide fires the conversation task before its update.               *)
AcceptChatsFirst(p) ==
    /\ At(p, "accept.findRide")
    /\ \/ /\ ride[h[p].ride].status = "PENDING"
          /\ Goto(p, "accept.update")
          /\ convTasks' = convTasks \cup {h[p].ride}
       \/ ride[h[p].ride].status # "PENDING" /\ Return(p) /\ UNCHANGED convTasks
    /\ UNCHANGED <<ride, rider, pay, conv, pct>>

(* The gate of a completion takes any payment row for a completed one.     *)
GateTakesAnyRow(p) ==
    /\ At(p, "update.findPayment")
    /\ ride[h[p].ride].method = "MPESA"
    /\ \/ pay[h[p].ride].st # "NONE" /\ Goto(p, "update.update")
       \/ pay[h[p].ride].st = "NONE" /\ Return(p)
    /\ UNCHANGED <<ride, rider, pay, conv, convTasks, pct>>

(* What belongs to a completion is done after every change of status.      *)
EveryUpdateCompletes(p) ==
    /\ At(p, "update.update")
    /\ ride' = [ride EXCEPT ![h[p].ride] = [@ EXCEPT !.status = h[p].to]]
    /\ Goto(p, "update.creditRider")
    /\ UNCHANGED <<rider, pay, conv, convTasks, pct>>

(* The rider is credited under the commission of now, not of the update.   *)
CreditUnderNewCommission(p) ==
    /\ At(p, "update.creditRider")
    /\ rider[h[p].rider].totalRides < MaxCompletions
    /\ rider' = [rider EXCEPT ![h[p].rider] =
                    [@ EXCEPT !.totalRides = @ + 1,
                              !.totalEarnings = @ + Earnings(h[p].ride, pct)]]
    /\ Goto(p, "findConversation")
    /\ UNCHANGED <<ride, pay, conv, convTasks, pct>>

(* A cancellation takes the rider off the ride.                            *)
CancelReleasesRider(p) ==
    /\ At(p, "cancel.update")
    /\ ride' = [ride EXCEPT ![h[p].ride] =
                   [@ EXCEPT !.status = "CANCELLED", !.riderId = NoOne]]
    /\ Return(p)
    /\ UNCHANGED <<rider, pay, conv, convTasks, pct>>

-----------------------------------------------------------------------------
(* createRide: one insert; the mail and the broadcast change no state.     *)
CreateRide(r, m) ==
    /\ ride[r].status = "NONE"
    /\ ride' = [ride EXCEPT ![r] = [@ EXCEPT !.status = "PENDING", !.method = m]]
    /\ UNCHANGED <<rider, pay, conv, convTasks, pct, h>>

(* acceptRide, the rider's row: the account must be verified and available. *)
AcceptFindRider(p, k, r) ==
    /\ Free(p, r)
    /\ ride[r].status # "NONE"
    /\ rider[k].eligible
    /\ h' = [h EXCEPT ![p] = Request("accept.findRide", r, k, "NONE", "NONE")]
    /\ UNCHANGED <<ride, rider, pay, conv, convTasks, pct>>

(* acceptRide, the ride's row: refused unless PENDING.                     *)
AcceptFindRide(p) ==
    /\ At(p, "accept.findRide")
    /\ \/ ride[h[p].ride].status = "PENDING" /\ Goto(p, "accept.update")
       \/ ride[h[p].ride].status # "PENDING" /\ Return(p)
    /\ UNCHANGED <<ride, rider, pay, conv, convTasks, pct>>

(* acceptRide, the update: by id only, whatever the row holds by now.  The *)
(* conversation is created by a task the handler does not await.           *)
AcceptUpdate(p) ==
    /\ At(p, "accept.update")
    /\ ride' = [ride EXCEPT ![h[p].ride] =
                   [@ EXCEPT !.status = "ACCEPTED", !.riderId = h[p].rider]]
    /\ convTasks' = convTasks \cup {h[p].ride}
    /\ Return(p)
    /\ UNCHANGED <<rider, pay, conv, pct>>

(* The task: rideId is @unique, and a violation is logged and swallowed.   *)
CreateConversation(r) ==
    /\ r \in convTasks
    /\ convTasks' = convTasks \ {r}
    /\ conv' = [conv EXCEPT ![r] = IF @ = "NONE" THEN "ACTIVE" ELSE @]
    /\ UNCHANGED <<ride, rider, pay, pct, h>>

(* updateRideStatus, the ride's row: it must be this rider's ride, and the *)
(* new status the one that follows.                                        *)
UpdateFindRide(p, k, r) ==
    /\ Free(p, r)
    /\ ride[r].riderId = k
    /\ ride[r].status \in DOMAIN ALLOWED_STATUS_TRANSITIONS
    /\ LET to == ALLOWED_STATUS_TRANSITIONS[ride[r].status]
           pc == IF to = "COMPLETED" THEN "update.findPayment"
                                     ELSE "update.update"
       IN  h' = [h EXCEPT ![p] = Request(pc, r, k, to, ride[r].status)]
    /\ UNCHANGED <<ride, rider, pay, conv, convTasks, pct>>

(* updateRideStatus, completing an M-Pesa ride: refused unless paid.       *)
UpdateFindMpesaPayment(p) ==
    /\ At(p, "update.findPayment")
    /\ ride[h[p].ride].method = "MPESA"
    /\ \/ Row!Paid(h[p].ride) /\ Goto(p, "update.update")
       \/ ~Row!Paid(h[p].ride) /\ Return(p)
    /\ UNCHANGED <<ride, rider, pay, conv, convTasks, pct>>

(* updateRideStatus, completing a cash ride: look the payment row up.      *)
UpdateFindCashPayment(p) ==
    /\ At(p, "update.findPayment")
    /\ ride[h[p].ride].method = "CASH"
    /\ LET row == pay[h[p].ride].st
           pc == IF row = "COMPLETED" THEN "update.update" ELSE "update.settleCash"
       IN  h' = [h EXCEPT ![p] = [@ EXCEPT !.seen = row, !.pc = pc]]
    /\ UNCHANGED <<ride, rider, pay, conv, convTasks, pct>>

(* ... and settle it.  Creating a row the passenger created meanwhile      *)
(* violates the unique index and fails the request.                        *)
UpdateSettleCash(p) ==
    /\ At(p, "update.settleCash")
    /\ IF h[p].seen = "NONE" /\ pay[h[p].ride].st # "NONE"
       THEN Return(p) /\ UNCHANGED pay
       ELSE Goto(p, "update.update") /\ Row!CollectCash(h[p].ride)
    /\ UNCHANGED <<ride, rider, conv, convTasks, pct>>

(* updateRideStatus, the update: by id only; a completion also stores what *)
(* the rider earned under the commission in force (the setting is read one *)
(* await earlier; nothing reads it again, so the two are one step).        *)
UpdateRide(p) ==
    /\ At(p, "update.update")
    /\ LET r == h[p].ride
           earned == Earnings(r, pct)
       IN  IF h[p].to = "COMPLETED"
           THEN /\ ride' = [ride EXCEPT ![r] =
                       [@ EXCEPT !.status = h[p].to, !.riderEarnings = earned]]
                /\ h' = [h EXCEPT ![p] =
                       [@ EXCEPT !.pc = "update.creditRider", !.earned = earned]]
           ELSE /\ ride' = [ride EXCEPT ![r].status = h[p].to]
                /\ Return(p)
    /\ UNCHANGED <<rider, pay, conv, convTasks, pct>>

Credited(row, earned) ==
    [row EXCEPT !.totalRides = row.totalRides + 1,
                !.totalEarnings = row.totalEarnings + earned]

(* ... after a completion, the rider's totals (an atomic increment).       *)
UpdateCreditRider(p) ==
    /\ At(p, "update.creditRider")
    /\ rider[h[p].rider].totalRides < MaxCompletions
    /\ rider' = [rider EXCEPT ![h[p].rider] = Credited(@, h[p].earned)]
    /\ Goto(p, "findConversation")
    /\ UNCHANGED <<ride, pay, conv, convTasks, pct>>

(* cancelRide, the ride's row: refused once the rider has set off.         *)
CancelFindRide(p, r) ==
    /\ Free(p, r)
    /\ ride[r].status \in {"PENDING", "ACCEPTED"}
    /\ h' = [h EXCEPT ![p] = Request("cancel.update", r, NoOne, "CANCELLED",
                                     ride[r].status)]
    /\ UNCHANGED <<ride, rider, pay, conv, convTasks, pct>>

(* cancelRide, the update: by id only; the conversation is looked for only *)
(* when the status read earlier was ACCEPTED.                              *)
CancelUpdate(p) ==
    /\ At(p, "cancel.update")
    /\ ride' = [ride EXCEPT ![h[p].ride].status = "CANCELLED"]
    /\ IF h[p].seen = "ACCEPTED" THEN Goto(p, "findConversation") ELSE Return(p)
    /\ UNCHANGED <<rider, pay, conv, convTasks, pct>>

(* getConversationByRideOrParcel, at the end of a completion or a cancel.  *)
FindConversation(p) ==
    /\ At(p, "findConversation")
    /\ IF conv[h[p].ride] = "NONE" THEN Return(p) ELSE Goto(p, "closeConversation")
    /\ UNCHANGED <<ride, rider, pay, conv, convTasks, pct>>

CloseConversation(p) ==
    /\ At(p, "closeConversation")
    /\ conv' = [conv EXCEPT ![h[p].ride] = "CLOSED"]
    /\ Return(p)
    /\ UNCHANGED <<ride, rider, pay, convTasks, pct>>

-----------------------------------------------------------------------------
(* The rest of the backend, as far as these rows are concerned.            *)

(* RidersService.updateAvailability and AdminService.setRiderVerification: *)
(* either flag may be flipped, in the middle of anything.                  *)
SetEligibility(k, b) ==
    /\ rider' = [rider EXCEPT ![k].eligible = b]
    /\ UNCHANGED <<ride, pay, conv, convTasks, pct, h>>

(* AdminService.updateSettings.                                            *)
SetCommission(c) ==
    /\ pct' = c
    /\ UNCHANGED <<ride, rider, pay, conv, convTasks, h>>

(* PaymentsService and the provider: any step its module allows the row.   *)
PaymentMoves(r) ==
    /\ ride[r].status # "NONE"
    /\ Row!PaymentStep(r)
    /\ UNCHANGED <<ride, rider, conv, convTasks, pct, h>>

(* A database call throws, or the process is restarted: the handler ends   *)
(* where it stands.  A restart is this step for every handler and task.    *)
HandlerFails(p) ==
    /\ Faults
    /\ h[p].pc # "idle"
    /\ Return(p)
    /\ UNCHANGED <<ride, rider, pay, conv, convTasks, pct>>

TaskFails(r) ==
    /\ Faults
    /\ r \in convTasks
    /\ convTasks' = convTasks \ {r}
    /\ UNCHANGED <<ride, rider, pay, conv, pct, h>>

HandlerStep(p) ==
    \/ AcceptFindRide(p) \/ AcceptUpdate(p)
    \/ UpdateFindMpesaPayment(p) \/ UpdateFindCashPayment(p)
    \/ UpdateSettleCash(p) \/ UpdateRide(p) \/ UpdateCreditRider(p)
    \/ CancelUpdate(p)
    \/ FindConversation(p) \/ CloseConversation(p)

NewRequest(p) ==
    \E r \in Rides :
        \/ \E k \in Riders : AcceptFindRider(p, k, r) \/ UpdateFindRide(p, k, r)
        \/ CancelFindRide(p, r)

Environment ==
    \/ \E r \in Rides, m \in {"MPESA", "CASH"} : CreateRide(r, m)
    \/ \E k \in Riders, b \in BOOLEAN : SetEligibility(k, b)
    \/ \E c \in Percentages : SetCommission(c)
    \/ \E r \in Rides : PaymentMoves(r)

Next ==
    \/ \E p \in Procs : HandlerStep(p) \/ NewRequest(p) \/ HandlerFails(p)
    \/ \E r \in Rides : CreateConversation(r) \/ TaskFails(r)
    \/ Environment

Spec == Init /\ [][Next]_vars

(* Node.js goes on with every awaited call and every fired task; requests, *)
(* toggles and payments are people's choices.                              *)
FairSpec ==
    /\ Spec
    /\ \A p \in Procs : WF_vars(HandlerStep(p))
    /\ \A r \in Rides : WF_vars(CreateConversation(r))
=============================================================================
