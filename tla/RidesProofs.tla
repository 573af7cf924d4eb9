---------------------------- MODULE RidesProofs ----------------------------
(***************************************************************************)
(* Proofs about Rides for every set of rides, riders and concurrent        *)
(* requests.                                                               *)
(***************************************************************************)
EXTENDS RidesProperties, Sums, TLAPS

(* The statuses of the chain, and where it leads.                          *)
LEMMA ChainFacts ==
    /\ DOMAIN ALLOWED_STATUS_TRANSITIONS = Active
    /\ \A s \in Active : /\ ALLOWED_STATUS_TRANSITIONS[s] \in Statuses
                         /\ ALLOWED_STATUS_TRANSITIONS[s] \notin {"NONE", "PENDING"}
  BY DEF ALLOWED_STATUS_TRANSITIONS, Active, Ended, Statuses

LEMMA EarningsNat ==
    ASSUME NEW r \in Rides, NEW c \in Percentages
    PROVE  Earnings(r, c) \in Nat
<1>1. Fare[r] \in Nat /\ (100 - c) \in Nat
  BY RidesAssumption
<1>2. QED
  BY <1>1 DEF Earnings

(* Rows and handler records keep their types when some fields are set.     *)
LEMMA RideRowUpdates ==
    ASSUME NEW x \in RideRows, NEW s \in Statuses
    PROVE  /\ [x EXCEPT !.status = s] \in RideRows
           /\ \A k \in Riders : [x EXCEPT !.status = s, !.riderId = k] \in RideRows
           /\ \A n \in Nat : [x EXCEPT !.status = s, !.riderEarnings = n] \in RideRows
           /\ \A m \in {"MPESA", "CASH"} :
                  [x EXCEPT !.status = s, !.method = m] \in RideRows
  BY DEF RideRows

LEMMA HandlerUpdates ==
    ASSUME NEW x \in HandlerRecords, NEW pc \in Places
    PROVE  /\ \A s \in Statuses \cup {"PROCESSING", "FAILED"} :
                  [x EXCEPT !.seen = s, !.pc = pc] \in HandlerRecords
           /\ \A n \in Nat : [x EXCEPT !.pc = pc, !.earned = n] \in HandlerRecords
  BY DEF HandlerRecords

LEMMA RiderUpdates ==
    ASSUME NEW x \in RiderRows, NEW n \in Nat
    PROVE  Credited(x, n) \in RiderRows
<1>1. x.totalRides + 1 \in Nat /\ x.totalEarnings + n \in Nat
  BY DEF RiderRows
<1>2. QED
  BY <1>1 DEF RiderRows, Credited

LEMMA StatusNames ==
    {"PENDING", "ACCEPTED", "COMPLETED", "CANCELLED"} \subseteq Statuses
  BY DEF Statuses, Active, Ended

-----------------------------------------------------------------------------
(* Type correctness, with what a busy handler always carries.              *)

AcceptPlaces == {"accept.findRide", "accept.update"}
UpdatePlaces == {"update.findPayment", "update.settleCash", "update.update",
                 "update.creditRider"}

HandlersOK ==
    \A p \in Procs :
        /\ h[p].pc # "idle" => h[p].ride \in Rides
        /\ h[p].pc \in AcceptPlaces \cup UpdatePlaces => h[p].rider \in Riders

TypeInv == TypeOK /\ HandlersOK

LEMMA InitTypeInv == Init => TypeInv
  BY RidesAssumption
     DEF Init, TypeInv, TypeOK, HandlersOK, RideRows, NoRide, RiderRows, Idle,
         HandlerRecords, Places, Statuses, Row!RowInit, Row!PayRows, Row!NoPay,
         Row!PayStatuses, Row!PayMethods, AcceptPlaces, UpdatePlaces

(* The two ways a handler's record changes between its database calls.     *)
LEMMA ReturnKeepsHandlers ==
    ASSUME TypeInv, NEW p \in Procs, Return(p)
    PROVE  h' \in [Procs -> HandlerRecords] /\ HandlersOK'
<1>1. Idle \in HandlerRecords
  BY DEF Idle, HandlerRecords, Places, Statuses
<1>2. QED
  BY <1>1 DEF TypeInv, TypeOK, HandlersOK, Return, Idle, AcceptPlaces, UpdatePlaces

LEMMA GotoKeepsHandlers ==
    ASSUME TypeInv, NEW p \in Procs, NEW pc \in Places, Goto(p, pc),
           h[p].pc # "idle",
           pc \in AcceptPlaces \cup UpdatePlaces
               => h[p].pc \in AcceptPlaces \cup UpdatePlaces
    PROVE  h' \in [Procs -> HandlerRecords] /\ HandlersOK'
<1>1. h' \in [Procs -> HandlerRecords]
  BY DEF TypeInv, TypeOK, Goto, HandlerRecords
<1>2. HandlersOK'
  BY DEF TypeInv, TypeOK, HandlersOK, Goto, HandlerRecords
<1>3. QED
  BY <1>1, <1>2

LEMMA StepTypeInv == TypeInv /\ [Next]_vars => TypeInv'
<1> SUFFICES ASSUME TypeInv, [Next]_vars
             PROVE  TypeInv'
  OBVIOUS
<1> USE RidesAssumption DEF TypeInv, TypeOK
<1>1. ASSUME NEW p \in Procs, HandlerStep(p)
      PROVE  TypeInv'
  <2> USE DEF At, AcceptPlaces, UpdatePlaces
  <2> DEFINE r == h[p].ride
  <2>0. h[p].pc # "idle" => r \in Rides
    BY DEF HandlersOK
  <2>1. CASE AcceptFindRide(p)
    BY <2>1, ReturnKeepsHandlers, GotoKeepsHandlers DEF AcceptFindRide, Places
  <2>2. CASE AcceptUpdate(p)
    <3>1. r \in Rides /\ h[p].rider \in Riders
      BY <2>2 DEF AcceptUpdate, HandlersOK
    <3>2. ride' \in [Rides -> RideRows]
      BY <2>2, <3>1, StatusNames, RideRowUpdates DEF AcceptUpdate
    <3>3. QED
      BY <2>2, <3>1, <3>2, ReturnKeepsHandlers DEF AcceptUpdate
  <2>3. CASE UpdateFindMpesaPayment(p)
    BY <2>3, ReturnKeepsHandlers, GotoKeepsHandlers DEF UpdateFindMpesaPayment, Places
  <2>4. CASE UpdateFindCashPayment(p)
    <3> DEFINE row == pay[r].st
               pc == IF row = "COMPLETED" THEN "update.update" ELSE "update.settleCash"
    <3>1. r \in Rides /\ h[p].rider \in Riders /\ h[p].ride \in Rides
      BY <2>4 DEF UpdateFindCashPayment, HandlersOK
    <3>2. row \in Statuses \cup {"PROCESSING", "FAILED"} /\ pc \in Places
      BY <3>1 DEF Row!PayRows, Row!PayStatuses, Statuses, Ended, Places
    <3>3. h' = [h EXCEPT ![p] = [h[p] EXCEPT !.seen = row, !.pc = pc]]
      BY <2>4 DEF UpdateFindCashPayment
    <3>4. [h[p] EXCEPT !.seen = row, !.pc = pc] \in HandlerRecords
      BY <3>2, HandlerUpdates
    <3>5. HandlersOK'
      BY <3>1, <3>3 DEF HandlersOK, HandlerRecords
    <3>6. QED
      BY <2>4, <3>3, <3>4, <3>5 DEF UpdateFindCashPayment
  <2>5. CASE UpdateSettleCash(p)
    <3>1. pay' \in [Rides -> Row!PayRows]
      BY <2>5 DEF UpdateSettleCash, Row!CollectCash, Row!PayRows, Row!PayStatuses,
                  Row!PayMethods
    <3>2. h' \in [Procs -> HandlerRecords] /\ HandlersOK'
      BY <2>5, ReturnKeepsHandlers, GotoKeepsHandlers DEF UpdateSettleCash, Places
    <3>3. QED
      BY <2>5, <3>1, <3>2 DEF UpdateSettleCash
  <2>6. CASE UpdateRide(p)
    <3> DEFINE earned == Earnings(r, pct)
    <3>1. r \in Rides /\ h[p].rider \in Riders /\ h[p].to \in Statuses
      BY <2>6 DEF UpdateRide, HandlersOK, HandlerRecords
    <3>2. earned \in Nat
      BY <3>1, EarningsNat
    <3>3. CASE h[p].to = "COMPLETED"
      <4> DEFINE x == [ride[r] EXCEPT !.status = h[p].to, !.riderEarnings = earned]
      <4>a. ride' = [ride EXCEPT ![r] = x]
        BY <2>6, <3>3 DEF UpdateRide
      <4>b. x \in RideRows
        BY <3>1, <3>2, RideRowUpdates
      <4>1. ride' \in [Rides -> RideRows]
        BY <4>a, <4>b
      <4>2. h' = [h EXCEPT ![p] = [h[p] EXCEPT !.pc = "update.creditRider",
                                               !.earned = earned]]
        BY <2>6, <3>3 DEF UpdateRide
      <4>3. [h[p] EXCEPT !.pc = "update.creditRider", !.earned = earned]
                \in HandlerRecords
        BY <3>2, HandlerUpdates DEF Places
      <4>4. HandlersOK'
        BY <3>1, <4>2 DEF HandlersOK, HandlerRecords
      <4>5. QED
        BY <2>6, <4>1, <4>2, <4>3, <4>4 DEF UpdateRide
    <3>4. CASE h[p].to # "COMPLETED"
      <4> DEFINE x == [ride[r] EXCEPT !.status = h[p].to]
      <4>a. ride' = [ride EXCEPT ![r] = x]
        BY <2>6, <3>4 DEF UpdateRide
      <4>b. x \in RideRows
        BY <3>1, RideRowUpdates
      <4>1. ride' \in [Rides -> RideRows]
        BY <4>a, <4>b
      <4>2. QED
        BY <2>6, <3>4, <4>1, ReturnKeepsHandlers DEF UpdateRide
    <3>5. QED
      BY <3>3, <3>4
  <2>7. CASE UpdateCreditRider(p)
    <3>1. h[p].rider \in Riders /\ h[p].earned \in Nat
      BY <2>7 DEF UpdateCreditRider, HandlersOK, HandlerRecords
    <3>2. rider' \in [Riders -> RiderRows]
      BY <2>7, <3>1, RiderUpdates DEF UpdateCreditRider
    <3>3. QED
      BY <2>7, <3>2, GotoKeepsHandlers DEF UpdateCreditRider, Places
  <2>8. CASE CancelUpdate(p)
    <3>1. ride' \in [Rides -> RideRows]
      BY <2>8, <2>0, StatusNames, RideRowUpdates DEF CancelUpdate
    <3>2. h' \in [Procs -> HandlerRecords] /\ HandlersOK'
      BY <2>8, ReturnKeepsHandlers, GotoKeepsHandlers DEF CancelUpdate, Places
    <3>3. QED
      BY <2>8, <3>1, <3>2 DEF CancelUpdate
  <2>9. CASE FindConversation(p)
    BY <2>9, ReturnKeepsHandlers, GotoKeepsHandlers DEF FindConversation, Places
  <2>10. CASE CloseConversation(p)
    BY <2>10, ReturnKeepsHandlers DEF CloseConversation
  <2>11. QED
    BY <1>1, <2>1, <2>2, <2>3, <2>4, <2>5, <2>6, <2>7, <2>8, <2>9, <2>10
       DEF HandlerStep
<1>2. ASSUME NEW p \in Procs, NewRequest(p)
      PROVE  TypeInv'
  <2> USE ChainFacts
      DEF HandlersOK, AcceptPlaces, UpdatePlaces, Request, HandlerRecords, Places
  <2>1. ASSUME NEW r \in Rides, NEW k \in Riders, AcceptFindRider(p, k, r)
        PROVE  TypeInv'
    BY <2>1 DEF AcceptFindRider, Statuses
  <2>2. ASSUME NEW r \in Rides, NEW k \in Riders, UpdateFindRide(p, k, r)
        PROVE  TypeInv'
    BY <2>2 DEF UpdateFindRide, RideRows
  <2>3. ASSUME NEW r \in Rides, CancelFindRide(p, r)
        PROVE  TypeInv'
    BY <2>3 DEF CancelFindRide, RideRows, Statuses, Ended
  <2>4. QED
    BY <1>2, <2>1, <2>2, <2>3 DEF NewRequest
<1>3. ASSUME NEW p \in Procs, HandlerFails(p)
      PROVE  TypeInv'
  BY <1>3, ReturnKeepsHandlers DEF HandlerFails
<1>4. ASSUME NEW r \in Rides, CreateConversation(r) \/ TaskFails(r)
      PROVE  TypeInv'
  BY <1>4 DEF CreateConversation, TaskFails, HandlersOK
<1>5. ASSUME Environment
      PROVE  TypeInv'
  <2> USE DEF HandlersOK
  <2>1. ASSUME NEW r \in Rides, NEW m \in {"MPESA", "CASH"}, CreateRide(r, m)
        PROVE  TypeInv'
    BY <2>1, StatusNames, RideRowUpdates DEF CreateRide
  <2>2. ASSUME NEW k \in Riders, NEW b \in BOOLEAN, SetEligibility(k, b)
        PROVE  TypeInv'
    BY <2>2 DEF SetEligibility, RiderRows
  <2>3. ASSUME NEW c \in Percentages, SetCommission(c)
        PROVE  TypeInv'
    BY <2>3 DEF SetCommission
  <2>4. ASSUME NEW r \in Rides, PaymentMoves(r)
        PROVE  TypeInv'
    BY <2>4 DEF PaymentMoves, Row!PaymentStep, Row!CreateRow, Row!SettleRow,
                Row!FailRow, Row!ResendRow, Row!PayRows, Row!PayStatuses,
                Row!PayMethods
  <2>5. QED
    BY <1>5, <2>1, <2>2, <2>3, <2>4 DEF Environment
<1>6. CASE UNCHANGED vars
  BY <1>6 DEF vars, HandlersOK
<1>7. QED
  BY <1>1, <1>2, <1>3, <1>4, <1>5, <1>6 DEF Next

(* Every table and every handler keeps its type, whatever overlaps.        *)
THEOREM TypeCorrect == Spec => []TypeOK
<1>1. TypeInv => TypeOK
  BY DEF TypeInv
<1>2. QED
  BY InitTypeInv, StepTypeInv, <1>1, PTL DEF Spec

-----------------------------------------------------------------------------
(* A ride under way has a rider.  The reason is that no handler ever takes *)
(* the rider off a ride again, so what updateRideStatus saw of it is still *)
(* true when it writes, however late.                                      *)

AssignedInv ==
    /\ AssignedWhenUnderWay
    /\ \A p \in Procs :
           h[p].pc \in UpdatePlaces => ride[h[p].ride].riderId # NoOne
    /\ \A r \in convTasks : ride[r].riderId # NoOne
    /\ ChatHasRider
    /\ \A p \in Procs :
           h[p].pc = "closeConversation" => conv[h[p].ride] # "NONE"

(* The only steps that write table rides.                                  *)
LEMMA RideWriters ==
    ASSUME [Next]_vars
    PROVE  \/ ride' = ride
           \/ \E p \in Procs : AcceptUpdate(p) \/ UpdateRide(p) \/ CancelUpdate(p)
           \/ \E q \in Rides, m \in {"MPESA", "CASH"} : CreateRide(q, m)
<1>1. ASSUME NEW p \in Procs, HandlerStep(p)
      PROVE  ride' = ride \/ AcceptUpdate(p) \/ UpdateRide(p) \/ CancelUpdate(p)
  BY <1>1
     DEF HandlerStep, AcceptFindRide, UpdateFindMpesaPayment,
         UpdateFindCashPayment, UpdateSettleCash, UpdateCreditRider,
         FindConversation, CloseConversation
<1>2. ASSUME NEW p \in Procs, NewRequest(p) \/ HandlerFails(p)
      PROVE  ride' = ride
  BY <1>2
     DEF NewRequest, AcceptFindRider, UpdateFindRide, CancelFindRide, HandlerFails
<1>3. ASSUME NEW q \in Rides, CreateConversation(q) \/ TaskFails(q)
      PROVE  ride' = ride
  BY <1>3 DEF CreateConversation, TaskFails
<1>4. ASSUME Environment
      PROVE  \/ ride' = ride
             \/ \E q \in Rides, m \in {"MPESA", "CASH"} : CreateRide(q, m)
  BY <1>4 DEF Environment, SetEligibility, SetCommission, PaymentMoves
<1>5. CASE UNCHANGED vars
  BY <1>5 DEF vars
<1>6. QED
  BY <1>1, <1>2, <1>3, <1>4, <1>5 DEF Next

(* What each of them does, field by field.                                 *)
LEMMA AcceptUpdateEffect ==
    ASSUME TypeInv, NEW p \in Procs, AcceptUpdate(p)
    PROVE  /\ h[p].ride \in Rides /\ h[p].rider \in Riders
           /\ \A q \in Rides :
                  /\ ride'[q].status =
                         IF q = h[p].ride THEN "ACCEPTED" ELSE ride[q].status
                  /\ ride'[q].riderId =
                         IF q = h[p].ride THEN h[p].rider ELSE ride[q].riderId
                  /\ ride'[q].method = ride[q].method
<1>1. h[p].ride \in Rides /\ h[p].rider \in Riders
  BY DEF TypeInv, HandlersOK, AcceptUpdate, At, AcceptPlaces
<1>2. ride' = [ride EXCEPT ![h[p].ride] =
                  [ride[h[p].ride] EXCEPT !.status = "ACCEPTED", !.riderId = h[p].rider]]
  BY DEF AcceptUpdate
<1>3. QED
  BY <1>1, <1>2 DEF TypeInv, TypeOK, RideRows

LEMMA UpdateRideEffect ==
    ASSUME TypeInv, NEW p \in Procs, UpdateRide(p)
    PROVE  /\ h[p].ride \in Rides /\ h[p].rider \in Riders
           /\ \A q \in Rides :
                  /\ ride'[q].status =
                         IF q = h[p].ride THEN h[p].to ELSE ride[q].status
                  /\ ride'[q].riderId = ride[q].riderId
                  /\ ride'[q].method = ride[q].method
<1> DEFINE r == h[p].ride
           x == [ride[r] EXCEPT !.status = h[p].to,
                                !.riderEarnings = Earnings(r, pct)]
           y == [ride[r] EXCEPT !.status = h[p].to]
<1>1. r \in Rides /\ h[p].rider \in Riders
  BY DEF TypeInv, HandlersOK, UpdateRide, At, UpdatePlaces
<1>2. ride' = [ride EXCEPT ![r] = x] \/ ride' = [ride EXCEPT ![r] = y]
  BY DEF UpdateRide
<1>3. /\ x.status = h[p].to /\ x.riderId = ride[r].riderId
      /\ x.method = ride[r].method
      /\ y.status = h[p].to /\ y.riderId = ride[r].riderId
      /\ y.method = ride[r].method
  BY <1>1 DEF TypeInv, TypeOK, RideRows
<1> HIDE DEF x, y
<1>4. QED
  BY <1>1, <1>2, <1>3 DEF TypeInv, TypeOK

LEMMA CancelUpdateEffect ==
    ASSUME TypeInv, NEW p \in Procs, CancelUpdate(p)
    PROVE  /\ h[p].ride \in Rides
           /\ \A q \in Rides :
                  /\ ride'[q].status =
                         IF q = h[p].ride THEN "CANCELLED" ELSE ride[q].status
                  /\ ride'[q].riderId = ride[q].riderId
                  /\ ride'[q].method = ride[q].method
  BY DEF TypeInv, TypeOK, HandlersOK, CancelUpdate, At, RideRows

LEMMA CreateRideEffect ==
    ASSUME TypeInv, NEW r \in Rides, NEW m \in {"MPESA", "CASH"}, CreateRide(r, m)
    PROVE  \A q \in Rides :
               /\ ride'[q].status = IF q = r THEN "PENDING" ELSE ride[q].status
               /\ ride'[q].riderId = ride[q].riderId
               /\ ride'[q].method = IF q = r THEN m ELSE ride[q].method
<1>1. ride' = [ride EXCEPT ![r] = [ride[r] EXCEPT !.status = "PENDING", !.method = m]]
  BY DEF CreateRide
<1>2. QED
  BY <1>1 DEF TypeInv, TypeOK, RideRows

LEMMA RiderStays ==
    ASSUME TypeInv, [Next]_vars, NEW r \in Rides, ride[r].riderId # NoOne
    PROVE  ride'[r].riderId # NoOne
  BY RideWriters, AcceptUpdateEffect, UpdateRideEffect, CancelUpdateEffect,
     CreateRideEffect, RidesAssumption

(* What a step does to the record of one handler: nothing, ending it, one  *)
(* of its own steps (which keep the request's parameters) or a request.    *)
LEMMA HandlerMoves ==
    ASSUME TypeInv, [Next]_vars, NEW p \in Procs
    PROVE  \/ h'[p] = h[p]
           \/ h'[p] = Idle
           \/ /\ HandlerStep(p)
              /\ h'[p].ride = h[p].ride /\ h'[p].rider = h[p].rider
              /\ h'[p].to = h[p].to
           \/ NewRequest(p)
<1> DEFINE Kept == h'[p].ride = h[p].ride /\ h'[p].rider = h[p].rider
                       /\ h'[p].to = h[p].to
           Goal == \/ h'[p] = h[p]
                   \/ h'[p] = Idle
                   \/ (HandlerStep(p) /\ Kept)
                   \/ NewRequest(p)
<1> USE DEF TypeInv, TypeOK
<1>1. ASSUME NEW q \in Procs, HandlerStep(q)
      PROVE  Goal
  <2>1. ASSUME q # p
        PROVE  h'[p] = h[p]
    BY <1>1, <2>1
       DEF HandlerStep, AcceptFindRide, AcceptUpdate, UpdateFindMpesaPayment,
           UpdateFindCashPayment, UpdateSettleCash, UpdateRide,
           UpdateCreditRider, CancelUpdate, FindConversation,
           CloseConversation, Goto, Return
  <2>2. ASSUME q = p, Return(p)
        PROVE  h'[p] = Idle
    BY <2>2 DEF Return
  <2>3. ASSUME q = p, \E pc \in Places : Goto(p, pc)
        PROVE  Kept
    BY <2>3 DEF Goto, HandlerRecords
  <2>4. ASSUME q = p, UpdateFindCashPayment(p)
        PROVE  Kept
    <3> DEFINE x == [h[p] EXCEPT !.seen = pay[h[p].ride].st,
                                 !.pc = IF pay[h[p].ride].st = "COMPLETED"
                                        THEN "update.update"
                                        ELSE "update.settleCash"]
    <3>1. h'[p] = x
      BY <2>4 DEF UpdateFindCashPayment
    <3>2. x.ride = h[p].ride /\ x.rider = h[p].rider /\ x.to = h[p].to
      BY DEF HandlerRecords
    <3>3. QED
      BY <3>1, <3>2
  <2>5. ASSUME q = p, UpdateRide(p), ~Return(p)
        PROVE  Kept
    <3> DEFINE x == [h[p] EXCEPT !.pc = "update.creditRider",
                                 !.earned = Earnings(h[p].ride, pct)]
    <3>1. h'[p] = x
      BY <2>5 DEF UpdateRide
    <3>2. x.ride = h[p].ride /\ x.rider = h[p].rider /\ x.to = h[p].to
      BY DEF HandlerRecords
    <3>3. QED
      BY <3>1, <3>2
  <2>6. \/ Return(q)
        \/ \E pc \in Places : Goto(q, pc)
        \/ UpdateFindCashPayment(q)
        \/ UpdateRide(q)
    BY <1>1
       DEF HandlerStep, AcceptFindRide, AcceptUpdate, UpdateFindMpesaPayment,
           UpdateSettleCash, UpdateCreditRider, CancelUpdate, FindConversation,
           CloseConversation, Places
  <2>7. CASE q = p
    <3>1. HandlerStep(p)
      BY <1>1, <2>7
    <3>2. h'[p] = Idle \/ Kept
      BY <2>7, <2>2, <2>3, <2>4, <2>5, <2>6
    <3>3. QED
      BY <3>1, <3>2
  <2>8. QED
    BY <2>1, <2>7
<1>2. ASSUME NEW q \in Procs, NewRequest(q), q # p
      PROVE  h'[p] = h[p]
  BY <1>2 DEF NewRequest, AcceptFindRider, UpdateFindRide, CancelFindRide
<1>3. ASSUME NEW q \in Procs, HandlerFails(q)
      PROVE  h'[p] = h[p] \/ h'[p] = Idle
  BY <1>3 DEF HandlerFails, Return
<1>4. ASSUME NEW r \in Rides, CreateConversation(r) \/ TaskFails(r)
      PROVE  h'[p] = h[p]
  BY <1>4 DEF CreateConversation, TaskFails
<1>5. ASSUME Environment
      PROVE  h'[p] = h[p]
  BY <1>5 DEF Environment, CreateRide, SetEligibility, SetCommission, PaymentMoves
<1>6. CASE UNCHANGED vars
  BY <1>6 DEF vars
<1>7. QED
  BY <1>1, <1>2, <1>3, <1>4, <1>5, <1>6 DEF Next

(* The places a handler's own step leads to.                               *)
LEMMA HandlerTargets ==
    ASSUME TypeInv, NEW p \in Procs, HandlerStep(p)
    PROVE  /\ h'[p].pc \in UpdatePlaces => h[p].pc \in UpdatePlaces
           /\ h'[p].pc = "closeConversation" => FindConversation(p)
<1> USE DEF TypeInv, TypeOK, HandlerRecords, At, Goto, UpdatePlaces
<1>1. CASE Return(p)
  BY <1>1 DEF Return, Idle
<1>2. CASE h[p].pc \in UpdatePlaces
  <2>1. h'[p].pc # "closeConversation"
    <3>1. \/ UpdateFindMpesaPayment(p) \/ UpdateFindCashPayment(p)
          \/ UpdateSettleCash(p) \/ UpdateRide(p) \/ UpdateCreditRider(p)
      BY <1>2
         DEF HandlerStep, AcceptFindRide, AcceptUpdate, CancelUpdate,
             FindConversation, CloseConversation
    <3>2. CASE UpdateFindMpesaPayment(p) \/ UpdateSettleCash(p) \/ UpdateCreditRider(p)
      BY <3>2
         DEF UpdateFindMpesaPayment, UpdateSettleCash, UpdateCreditRider, Return, Idle
    <3>3. CASE UpdateFindCashPayment(p)
      BY <3>3 DEF UpdateFindCashPayment
    <3>4. CASE UpdateRide(p)
      <4>1. CASE h[p].to = "COMPLETED"
        BY <3>4, <4>1 DEF UpdateRide
      <4>2. CASE h[p].to # "COMPLETED"
        BY <3>4, <4>2 DEF UpdateRide, Return, Idle
      <4>3. QED
        BY <4>1, <4>2
    <3>5. QED
      BY <3>1, <3>2, <3>3, <3>4
  <2>2. QED
    BY <1>2, <2>1
<1>3. CASE h[p].pc \notin UpdatePlaces /\ ~Return(p)
  <2>1. AcceptFindRide(p) \/ CancelUpdate(p) \/ FindConversation(p)
    BY <1>3
       DEF HandlerStep, AcceptUpdate, UpdateFindMpesaPayment,
           UpdateFindCashPayment, UpdateSettleCash, UpdateRide,
           UpdateCreditRider, CloseConversation
  <2>2. QED
    BY <1>3, <2>1 DEF AcceptFindRide, CancelUpdate, FindConversation
<1>4. QED
  BY <1>1, <1>2, <1>3

(* A request starts at its first call, an update by finding its rider.     *)
LEMMA RequestTargets ==
    ASSUME TypeInv, NEW p \in Procs, NewRequest(p)
    PROVE  /\ UNCHANGED <<ride, rider, pay, conv, convTasks, pct>>
           /\ h'[p].pc # "closeConversation"
           /\ h'[p].pc \in UpdatePlaces
                  => \E r \in Rides, k \in Riders : UpdateFindRide(p, k, r)
           /\ \A r \in Rides, k \in Riders :
                  UpdateFindRide(p, k, r)
                      => /\ h'[p].ride = r /\ h'[p].rider = k
                         /\ h'[p].to = ALLOWED_STATUS_TRANSITIONS[ride[r].status]
                         /\ h'[p].pc = IF h'[p].to = "COMPLETED"
                                       THEN "update.findPayment" ELSE "update.update"
  BY DEF TypeInv, TypeOK, NewRequest, AcceptFindRider, UpdateFindRide,
         CancelFindRide, Request, UpdatePlaces

(* A handler gets to an update place by finding its rider on the ride.     *)
LEMMA UpdatersOrigin ==
    ASSUME TypeInv, AssignedInv, [Next]_vars, NEW p \in Procs,
           h'[p].pc \in UpdatePlaces
    PROVE  h'[p].ride \in Rides /\ ride[h'[p].ride].riderId # NoOne
<1>1. CASE h'[p] = h[p]
  BY <1>1 DEF AssignedInv, TypeInv, HandlersOK, UpdatePlaces
<1>2. CASE h'[p] = Idle
  BY <1>2 DEF Idle, UpdatePlaces
<1>3. CASE HandlerStep(p) /\ h'[p].ride = h[p].ride
  BY <1>3, HandlerTargets DEF AssignedInv, TypeInv, HandlersOK, UpdatePlaces
<1>4. CASE NewRequest(p)
  BY <1>4, RequestTargets, RidesAssumption DEF UpdateFindRide
<1>5. QED
  BY HandlerMoves, <1>1, <1>2, <1>3, <1>4

(* The only steps that write the conversations and the payments.           *)
LEMMA OtherWriters ==
    ASSUME [Next]_vars
    PROVE  /\ \/ conv' = conv
              \/ \E r \in Rides : CreateConversation(r)
              \/ \E p \in Procs : CloseConversation(p)
           /\ \/ convTasks' \subseteq convTasks
              \/ \E p \in Procs : AcceptUpdate(p)
           /\ \/ pay' = pay
              \/ \E p \in Procs : UpdateSettleCash(p)
              \/ \E r \in Rides : PaymentMoves(r)
<1>1. ASSUME NEW p \in Procs, HandlerStep(p)
      PROVE  /\ conv' = conv \/ CloseConversation(p)
             /\ convTasks' = convTasks \/ AcceptUpdate(p)
             /\ pay' = pay \/ UpdateSettleCash(p)
  BY <1>1
     DEF HandlerStep, AcceptFindRide, AcceptUpdate, UpdateFindMpesaPayment,
         UpdateFindCashPayment, UpdateSettleCash, UpdateRide,
         UpdateCreditRider, CancelUpdate, FindConversation, CloseConversation
<1>2. ASSUME NEW p \in Procs, NewRequest(p) \/ HandlerFails(p)
      PROVE  UNCHANGED <<conv, convTasks, pay>>
  BY <1>2
     DEF NewRequest, AcceptFindRider, UpdateFindRide, CancelFindRide, HandlerFails
<1>3. ASSUME NEW r \in Rides, CreateConversation(r) \/ TaskFails(r)
      PROVE  /\ convTasks' \subseteq convTasks /\ pay' = pay
             /\ conv' = conv \/ CreateConversation(r)
  BY <1>3 DEF CreateConversation, TaskFails
<1>4. ASSUME Environment
      PROVE  /\ UNCHANGED <<conv, convTasks>>
             /\ pay' = pay \/ \E r \in Rides : PaymentMoves(r)
  BY <1>4 DEF Environment, CreateRide, SetEligibility, SetCommission, PaymentMoves
<1>5. CASE UNCHANGED vars
  BY <1>5 DEF vars
<1>6. QED
  BY <1>1, <1>2, <1>3, <1>4, <1>5 DEF Next

LEMMA StepAssignedInv == TypeInv /\ AssignedInv /\ [Next]_vars => AssignedInv'
<1> SUFFICES ASSUME TypeInv, AssignedInv, [Next]_vars
             PROVE  AssignedInv'
  OBVIOUS
<1>1. AssignedWhenUnderWay'
  <2> SUFFICES ASSUME NEW r \in Rides, ride'[r].status \in Active \cup {"COMPLETED"}
               PROVE  ride'[r].riderId # NoOne
    BY DEF AssignedWhenUnderWay
  <2>1. CASE ride' = ride
    BY <2>1 DEF AssignedInv, AssignedWhenUnderWay
  <2>2. ASSUME NEW p \in Procs, AcceptUpdate(p)
        PROVE  ride'[r].riderId # NoOne
    BY <2>2, AcceptUpdateEffect, RiderStays, RidesAssumption
       DEF AssignedInv, AssignedWhenUnderWay
  <2>3. ASSUME NEW p \in Procs, UpdateRide(p)
        PROVE  ride'[r].riderId # NoOne
    <3>1. ride[h[p].ride].riderId # NoOne
      BY <2>3 DEF UpdateRide, At, AssignedInv, UpdatePlaces
    <3>2. QED
      BY <2>3, <3>1, UpdateRideEffect DEF AssignedInv, AssignedWhenUnderWay
  <2>4. ASSUME NEW p \in Procs, CancelUpdate(p)
        PROVE  ride'[r].riderId # NoOne
    BY <2>4, CancelUpdateEffect DEF AssignedInv, AssignedWhenUnderWay, Active
  <2>5. ASSUME NEW q \in Rides, NEW m \in {"MPESA", "CASH"}, CreateRide(q, m)
        PROVE  ride'[r].riderId # NoOne
    BY <2>5, CreateRideEffect DEF AssignedInv, AssignedWhenUnderWay, Active
  <2>6. QED
    BY RideWriters, <2>1, <2>2, <2>3, <2>4, <2>5
<1>2. ASSUME NEW p \in Procs, h'[p].pc \in UpdatePlaces
      PROVE  ride'[h'[p].ride].riderId # NoOne
  BY <1>2, UpdatersOrigin, RiderStays
<1>3. ASSUME NEW r \in convTasks'
      PROVE  ride'[r].riderId # NoOne
  <2>1. CASE r \in convTasks
    BY <2>1, RiderStays DEF AssignedInv, TypeInv, TypeOK
  <2>2. ASSUME NEW p \in Procs, AcceptUpdate(p), r \notin convTasks
        PROVE  ride'[r].riderId # NoOne
    <3>1. r = h[p].ride
      BY <1>3, <2>2 DEF AcceptUpdate
    <3>2. QED
      BY <2>2, <3>1, AcceptUpdateEffect, RidesAssumption
  <2>3. QED
    BY <1>3, <2>1, <2>2, OtherWriters
<1>4. ASSUME NEW r \in Rides, conv'[r] # "NONE"
      PROVE  ride'[r].riderId # NoOne
  <2>1. ride[r].riderId # NoOne
    <3>1. CASE conv[r] # "NONE"
      BY <3>1 DEF AssignedInv, ChatHasRider
    <3>2. ASSUME NEW q \in Rides, CreateConversation(q), conv[r] = "NONE"
          PROVE  ride[r].riderId # NoOne
      BY <1>4, <3>2 DEF CreateConversation, AssignedInv, TypeInv, TypeOK
    <3>3. ASSUME NEW p \in Procs, CloseConversation(p), conv[r] = "NONE"
          PROVE  ride[r].riderId # NoOne
      BY <1>4, <3>3 DEF CloseConversation, At, AssignedInv, TypeInv, TypeOK
    <3>4. QED
      BY <1>4, <3>1, <3>2, <3>3, OtherWriters
  <2>2. QED
    BY <2>1, RiderStays
<1>5. ASSUME NEW p \in Procs, h'[p].pc = "closeConversation"
      PROVE  conv'[h'[p].ride] # "NONE"
  <2>1. ASSUME NEW r \in Rides, conv[r] # "NONE"
        PROVE  conv'[r] # "NONE"
    BY <2>1, OtherWriters DEF CreateConversation, CloseConversation, TypeInv, TypeOK
  <2>2. h'[p].ride \in Rides
    BY <1>5, StepTypeInv DEF TypeInv, HandlersOK
  <2>3. conv[h'[p].ride] # "NONE"
    <3>1. CASE h'[p] = h[p]
      BY <1>5, <3>1 DEF AssignedInv
    <3>2. CASE h'[p] = Idle
      BY <1>5, <3>2 DEF Idle
    <3>3. CASE HandlerStep(p) /\ h'[p].ride = h[p].ride
      <4>1. FindConversation(p)
        BY <1>5, <3>3, HandlerTargets
      <4>2. conv[h[p].ride] # "NONE"
        BY <1>5, <4>1 DEF FindConversation, Return, Idle, TypeInv, TypeOK
      <4>3. QED
        BY <3>3, <4>2
    <3>4. CASE NewRequest(p)
      BY <1>5, <3>4, RequestTargets
    <3>5. QED
      BY HandlerMoves, <3>1, <3>2, <3>3, <3>4
  <2>4. QED
    BY <2>1, <2>2, <2>3
<1>6. QED
  BY <1>1, <1>2, <1>3, <1>4, <1>5 DEF AssignedInv, ChatHasRider

(* A ride under way or finished has a rider, and a chat belongs to a ride  *)
(* that had one, whatever requests overlap and whatever fails.             *)
THEOREM AssignedAlways == Spec => [](AssignedWhenUnderWay /\ ChatHasRider)
<1>1. Init => AssignedInv
  BY DEF Init, AssignedInv, AssignedWhenUnderWay, ChatHasRider, NoRide, Idle,
         Active, UpdatePlaces
<1>2. AssignedInv => AssignedWhenUnderWay /\ ChatHasRider
  BY DEF AssignedInv
<1>3. QED
  BY InitTypeInv, StepTypeInv, StepAssignedInv, <1>1, <1>2, PTL DEF Spec

(* No chat belongs to a ride nobody took, however late the task that       *)
(* acceptRide leaves behind opens it and whatever became of the ride.      *)
THEOREM ChatsHaveRiders == Spec => []ChatHasRider
<1>1. AssignedWhenUnderWay /\ ChatHasRider => ChatHasRider
  OBVIOUS
<1>2. QED
  BY AssignedAlways, <1>1, PTL

-----------------------------------------------------------------------------
(* No ride is finished unpaid, as long as a COMPLETED payment stays so:    *)
(* then what the gate of updateRideStatus saw is still true when it writes. *)

PaidInv ==
    /\ CompletedIsPaid
    /\ \A p \in Procs :
           h[p].pc = "update.update" /\ h[p].to = "COMPLETED" => Row!Paid(h[p].ride)

LEMMA PaidStays ==
    ASSUME ~Regress, TypeInv, [Next]_vars, NEW r \in Rides, pay[r].st = "COMPLETED"
    PROVE  pay'[r].st = "COMPLETED"
<1>1. ASSUME NEW p \in Procs, UpdateSettleCash(p)
      PROVE  pay'[r].st = "COMPLETED"
  BY <1>1 DEF UpdateSettleCash, Row!CollectCash, TypeInv, TypeOK
<1>2. ASSUME NEW q \in Rides, PaymentMoves(q)
      PROVE  pay'[r].st = "COMPLETED"
  BY <1>2
     DEF PaymentMoves, Row!PaymentStep, Row!CreateRow, Row!SettleRow,
         Row!FailRow, Row!ResendRow, Row!Open, Row!Paid, TypeInv, TypeOK
<1>3. QED
  BY OtherWriters, <1>1, <1>2

(* The two ways to the update of a completion: the gate, or cash.          *)
LEMMA CompletionGate ==
    ASSUME TypeInv, NEW p \in Procs, HandlerStep(p), h'[p].pc = "update.update",
           h'[p].ride = h[p].ride
    PROVE  h[p].ride \in Rides /\ pay'[h[p].ride].st = "COMPLETED"
<1> USE DEF TypeInv, TypeOK
<1>1. h[p].ride \in Rides
  BY StepTypeInv, HandlerTargets DEF HandlersOK, UpdatePlaces
<1>2. CASE Return(p)
  BY <1>2 DEF Return, Idle
<1>3. \/ UpdateFindMpesaPayment(p) \/ UpdateFindCashPayment(p)
      \/ UpdateSettleCash(p) \/ UpdateRide(p) \/ Return(p)
  BY DEF HandlerStep, AcceptFindRide, AcceptUpdate, UpdateCreditRider,
         CancelUpdate, FindConversation, CloseConversation, Goto, HandlerRecords
<1>4. CASE UpdateFindMpesaPayment(p) /\ ~Return(p)
  BY <1>1, <1>4 DEF UpdateFindMpesaPayment, Row!Paid
<1>5. CASE UpdateFindCashPayment(p)
  <2> DEFINE pc == IF pay[h[p].ride].st = "COMPLETED" THEN "update.update"
                                                     ELSE "update.settleCash"
             x == [h[p] EXCEPT !.seen = pay[h[p].ride].st, !.pc = pc]
  <2>1. h'[p] = x /\ x.pc = pc
    BY <1>5 DEF UpdateFindCashPayment, HandlerRecords
  <2>2. QED
    BY <1>1, <1>5, <2>1 DEF UpdateFindCashPayment
<1>6. CASE UpdateSettleCash(p) /\ ~Return(p)
  BY <1>1, <1>6 DEF UpdateSettleCash, Row!CollectCash
<1>7. CASE UpdateRide(p) /\ ~Return(p)
  <2>1. h'[p].pc = "update.creditRider"
    BY <1>7 DEF UpdateRide, HandlerRecords
  <2>2. QED
    BY <2>1
<1>8. QED
  BY <1>2, <1>3, <1>4, <1>5, <1>6, <1>7

LEMMA StepPaidInv ==
    ASSUME ~Regress
    PROVE  TypeInv /\ PaidInv /\ [Next]_vars => PaidInv'
<1> SUFFICES ASSUME TypeInv, PaidInv, [Next]_vars
             PROVE  PaidInv'
  OBVIOUS
<1>1. ASSUME NEW r \in Rides, ride'[r].status = "COMPLETED"
      PROVE  pay'[r].st = "COMPLETED"
  <2>1. CASE ride[r].status = "COMPLETED"
    BY <2>1, PaidStays DEF PaidInv, CompletedIsPaid, Row!Paid
  <2>2. ASSUME NEW p \in Procs, UpdateRide(p), ride[r].status # "COMPLETED"
        PROVE  pay'[r].st = "COMPLETED"
    <3>1. r = h[p].ride /\ h[p].to = "COMPLETED"
      BY <1>1, <2>2, UpdateRideEffect
    <3>2. pay[r].st = "COMPLETED"
      BY <2>2, <3>1 DEF PaidInv, UpdateRide, At, Row!Paid
    <3>3. QED
      BY <3>2, PaidStays
  <2>3. QED
    BY <1>1, <2>1, <2>2, RideWriters, AcceptUpdateEffect, CancelUpdateEffect,
       CreateRideEffect
<1>2. ASSUME NEW p \in Procs, h'[p].pc = "update.update", h'[p].to = "COMPLETED"
      PROVE  pay'[h'[p].ride].st = "COMPLETED"
  <2>1. CASE h'[p] = h[p]
    <3>1. h[p].ride \in Rides /\ pay[h[p].ride].st = "COMPLETED"
      BY <1>2, <2>1 DEF PaidInv, Row!Paid, TypeInv, HandlersOK
    <3>2. QED
      BY <2>1, <3>1, PaidStays
  <2>2. CASE h'[p] = Idle
    BY <1>2, <2>2 DEF Idle
  <2>3. CASE HandlerStep(p) /\ h'[p].ride = h[p].ride
    BY <1>2, <2>3, CompletionGate
  <2>4. CASE NewRequest(p)
    BY <1>2, <2>4, RequestTargets DEF UpdatePlaces
  <2>5. QED
    BY HandlerMoves, <2>1, <2>2, <2>3, <2>4
<1>3. QED
  BY <1>1, <1>2 DEF PaidInv, CompletedIsPaid, Row!Paid

(* The gate of updateRideStatus, for any number of overlapping requests.   *)
THEOREM PaidBeforeCompleted ==
    ASSUME ~Regress
    PROVE  Spec => []CompletedIsPaid
<1>1. Init => PaidInv
  BY DEF Init, PaidInv, CompletedIsPaid, NoRide, Idle
<1>2. PaidInv => CompletedIsPaid
  BY DEF PaidInv
<1>3. QED
  BY InitTypeInv, StepTypeInv, StepPaidInv, <1>1, <1>2, PTL DEF Spec

-----------------------------------------------------------------------------
(* When the requests on one ride do not overlap, every read of a handler   *)
(* is still true when it writes, and the handlers implement the life of a  *)
(* trip (TripLifecycle).                                                   *)

GatePlaces == {"update.findPayment", "update.settleCash", "update.update"}

WritePlaces == GatePlaces \cup {"accept.update", "cancel.update"}

SerialInv ==
    /\ \A p, q \in Procs : p # q /\ h[p].pc # "idle" => h[p].ride # h[q].ride
    /\ \A p \in Procs :
          /\ h[p].pc = "accept.update" => ride[h[p].ride].status = "PENDING"
          /\ h[p].pc \in GatePlaces =>
                 /\ ride[h[p].ride].status \in Active
                 /\ h[p].to = ALLOWED_STATUS_TRANSITIONS[ride[h[p].ride].status]
          /\ h[p].pc = "cancel.update" =>
                 ride[h[p].ride].status \in {"PENDING", "ACCEPTED"}

(* A handler's own steps, seen from the ride it works on.                  *)
LEMMA OwnStep ==
    ASSUME TypeInv, NEW p \in Procs, HandlerStep(p)
    PROVE  /\ h[p].pc # "idle"
           /\ h'[p].pc = "accept.update" =>
                  /\ h[p].ride \in Rides /\ ride[h[p].ride].status = "PENDING"
                  /\ ride' = ride
           /\ h'[p].pc \in GatePlaces =>
                  /\ h[p].pc \in GatePlaces
                  /\ ride' = ride
           /\ h'[p].pc # "cancel.update"
<1> USE DEF TypeInv, TypeOK, HandlerRecords, At, Goto, GatePlaces
<1>1. h[p].pc # "idle"
  BY DEF HandlerStep, AcceptFindRide, AcceptUpdate, UpdateFindMpesaPayment,
         UpdateFindCashPayment, UpdateSettleCash, UpdateRide,
         UpdateCreditRider, CancelUpdate, FindConversation, CloseConversation
<1>2. CASE Return(p)
  <2>1. h'[p] = Idle /\ h'[p].pc = "idle"
    BY <1>2 DEF Return, Idle
  <2>2. QED
    BY <1>1, <2>1
<1>3. CASE AcceptFindRide(p) /\ ~Return(p)
  BY <1>3 DEF AcceptFindRide, HandlersOK, AcceptPlaces
<1>4. CASE /\ ~Return(p)
           /\ \/ UpdateFindMpesaPayment(p) \/ UpdateSettleCash(p)
              \/ UpdateCreditRider(p) \/ CancelUpdate(p) \/ FindConversation(p)
  BY <1>4
     DEF UpdateFindMpesaPayment, UpdateSettleCash, UpdateCreditRider,
         CancelUpdate, FindConversation
<1>5. CASE UpdateFindCashPayment(p)
  <2> DEFINE pc == IF pay[h[p].ride].st = "COMPLETED" THEN "update.update"
                                                     ELSE "update.settleCash"
             x == [h[p] EXCEPT !.seen = pay[h[p].ride].st, !.pc = pc]
  <2>1. h'[p] = x /\ x.pc = pc /\ ride' = ride
    BY <1>5 DEF UpdateFindCashPayment
  <2>2. QED
    BY <1>5, <2>1 DEF UpdateFindCashPayment
<1>6. CASE UpdateRide(p) /\ ~Return(p)
  <2>1. h'[p].pc = "update.creditRider"
    BY <1>6 DEF UpdateRide
  <2>2. QED
    BY <1>1, <2>1
<1>7. QED
  BY <1>2, <1>3, <1>4, <1>5, <1>6
     DEF HandlerStep, AcceptUpdate, CloseConversation

(* A request finds what it will write about, and nobody else at it.        *)
LEMMA RequestFinds ==
    ASSUME OnePerRide, TypeInv, NEW p \in Procs, NewRequest(p)
    PROVE  /\ \A q \in Procs : q # p => h'[q] = h[q] /\ h'[p].ride # h[q].ride
           /\ h'[p].pc # "accept.update"
           /\ h'[p].pc \in GatePlaces =>
                  /\ ride[h'[p].ride].status \in Active
                  /\ h'[p].to = ALLOWED_STATUS_TRANSITIONS[ride[h'[p].ride].status]
           /\ h'[p].pc = "cancel.update" =>
                  ride[h'[p].ride].status \in {"PENDING", "ACCEPTED"}
<1> USE DEF TypeInv, TypeOK, Free
<1>1. ASSUME NEW r \in Rides, NEW k \in Riders, AcceptFindRider(p, k, r)
      PROVE  /\ h'[p].ride = r /\ h'[p].pc = "accept.findRide"
             /\ \A q \in Procs : q # p => h'[q] = h[q] /\ h[q].ride # r
  BY <1>1 DEF AcceptFindRider, Request
<1>2. ASSUME NEW r \in Rides, NEW k \in Riders, UpdateFindRide(p, k, r)
      PROVE  /\ h'[p].ride = r /\ h'[p].pc \in GatePlaces
             /\ ride[r].status \in Active
             /\ h'[p].to = ALLOWED_STATUS_TRANSITIONS[ride[r].status]
             /\ \A q \in Procs : q # p => h'[q] = h[q] /\ h[q].ride # r
  BY <1>2, ChainFacts DEF UpdateFindRide, Request, GatePlaces
<1>3. ASSUME NEW r \in Rides, CancelFindRide(p, r)
      PROVE  /\ h'[p].ride = r /\ h'[p].pc = "cancel.update"
             /\ ride[r].status \in {"PENDING", "ACCEPTED"}
             /\ \A q \in Procs : q # p => h'[q] = h[q] /\ h[q].ride # r
  BY <1>3 DEF CancelFindRide, Request
<1>4. QED
  BY <1>1, <1>2, <1>3 DEF NewRequest, GatePlaces

(* A handler about to write is the only one that can write its ride.       *)
LEMMA WaitingKeepsStatus ==
    ASSUME TypeInv, SerialInv, [Next]_vars, NEW p \in Procs,
           h[p].pc \in WritePlaces, h'[p] = h[p]
    PROVE  ride'[h[p].ride].status = ride[h[p].ride].status
<1>1. h[p].ride \in Rides /\ ride[h[p].ride].status # "NONE"
  BY DEF TypeInv, HandlersOK, SerialInv, WritePlaces, GatePlaces, Active
<1>2. ASSUME AcceptUpdate(p) \/ UpdateRide(p) \/ CancelUpdate(p)
      PROVE  FALSE
  <2> USE DEF TypeInv, TypeOK, WritePlaces, GatePlaces, Return, Idle, Goto
  <2>1. CASE AcceptUpdate(p)
    BY <2>1 DEF AcceptUpdate
  <2>2. CASE UpdateRide(p)
    <3>1. h'[p].pc = "update.creditRider" \/ Return(p)
      BY <2>2 DEF UpdateRide, HandlerRecords
    <3>2. QED
      BY <3>1
  <2>3. CASE CancelUpdate(p)
    BY <2>3 DEF CancelUpdate, HandlerRecords
  <2>4. QED
    BY <1>2, <2>1, <2>2, <2>3
<1>3. ASSUME NEW q \in Procs, q # p,
             AcceptUpdate(q) \/ UpdateRide(q) \/ CancelUpdate(q)
      PROVE  ride'[h[p].ride].status = ride[h[p].ride].status
  <2>1. h[q].ride # h[p].ride
    BY <1>3 DEF SerialInv, WritePlaces, GatePlaces
  <2>2. QED
    BY <1>1, <1>3, <2>1, AcceptUpdateEffect, UpdateRideEffect, CancelUpdateEffect
<1>4. ASSUME NEW r \in Rides, NEW m \in {"MPESA", "CASH"}, CreateRide(r, m)
      PROVE  ride'[h[p].ride].status = ride[h[p].ride].status
  <2>1. r # h[p].ride
    BY <1>1, <1>4 DEF CreateRide
  <2>2. QED
    BY <1>1, <1>4, <2>1, CreateRideEffect
<1>5. QED
  BY RideWriters, <1>2, <1>3, <1>4

LEMMA StepSerialInv ==
    ASSUME OnePerRide
    PROVE  TypeInv /\ SerialInv /\ [Next]_vars => SerialInv'
<1> SUFFICES ASSUME TypeInv, SerialInv, [Next]_vars
             PROVE  SerialInv'
  OBVIOUS
<1>1. ASSUME NEW p \in Procs, NEW q \in Procs, p # q, h'[p].pc # "idle"
      PROVE  h'[p].ride # h'[q].ride
  <2>1. CASE NewRequest(p) \/ NewRequest(q)
    BY <1>1, <2>1, RequestFinds
  <2>2. CASE ~NewRequest(p) /\ ~NewRequest(q)
    <3>1. h'[p].ride = h[p].ride /\ h[p].pc # "idle" /\ h'[p].ride \in Rides
      BY <1>1, <2>2, HandlerMoves, OwnStep, StepTypeInv
         DEF Idle, TypeInv, HandlersOK
    <3>2. h'[q].ride = h[q].ride \/ h'[q].ride = NoOne
      BY <2>2, HandlerMoves DEF Idle
    <3>3. QED
      BY <1>1, <3>1, <3>2, RidesAssumption DEF SerialInv
  <2>3. QED
    BY <2>1, <2>2
<1>2. ASSUME NEW p \in Procs, h'[p].pc \in WritePlaces
      PROVE  /\ h'[p].pc = "accept.update" => ride'[h'[p].ride].status = "PENDING"
             /\ h'[p].pc \in GatePlaces =>
                    /\ ride'[h'[p].ride].status \in Active
                    /\ h'[p].to = ALLOWED_STATUS_TRANSITIONS[ride'[h'[p].ride].status]
             /\ h'[p].pc = "cancel.update" =>
                    ride'[h'[p].ride].status \in {"PENDING", "ACCEPTED"}
  <2>1. CASE h'[p] = h[p]
    BY <1>2, <2>1, WaitingKeepsStatus DEF SerialInv
  <2>2. CASE h'[p] = Idle
    BY <2>2 DEF Idle, GatePlaces
  <2>3. CASE HandlerStep(p) /\ h'[p].ride = h[p].ride /\ h'[p].to = h[p].to
    BY <2>3, OwnStep DEF SerialInv
  <2>4. CASE NewRequest(p)
    BY <2>4, RequestFinds, RequestTargets
  <2>5. QED
    BY HandlerMoves, <2>1, <2>2, <2>3, <2>4
<1>3. QED
  BY <1>1, <1>2 DEF SerialInv, WritePlaces

(* Whatever overlaps, a request is about a ride that was booked, and an    *)
(* update is to a status of the chain.                                     *)
StartedInv ==
    \A p \in Procs :
        /\ h[p].pc # "idle" => ride[h[p].ride].status # "NONE"
        /\ h[p].pc \in UpdatePlaces =>
               \E s \in Active : h[p].to = ALLOWED_STATUS_TRANSITIONS[s]

LEMMA BookedStays ==
    ASSUME TypeInv, StartedInv, [Next]_vars, NEW r \in Rides,
           ride[r].status # "NONE"
    PROVE  ride'[r].status # "NONE"
<1>1. ASSUME NEW p \in Procs, UpdateRide(p)
      PROVE  ride'[r].status # "NONE"
  <2>1. h[p].to # "NONE"
    BY <1>1, ChainFacts DEF StartedInv, UpdateRide, At, UpdatePlaces
  <2>2. QED
    BY <1>1, <2>1, UpdateRideEffect
<1>2. QED
  BY <1>1, RideWriters, AcceptUpdateEffect, CancelUpdateEffect, CreateRideEffect

(* The first call of a request has found its ride.                         *)
LEMMA RequestFindsBooked ==
    ASSUME TypeInv, NEW p \in Procs, NewRequest(p)
    PROVE  /\ h'[p].ride \in Rides /\ ride[h'[p].ride].status # "NONE"
           /\ h'[p].pc \in UpdatePlaces =>
                  \E s \in Active : h'[p].to = ALLOWED_STATUS_TRANSITIONS[s]
<1> USE DEF TypeInv, TypeOK
<1>1. ASSUME NEW r \in Rides, NEW k \in Riders, AcceptFindRider(p, k, r)
      PROVE  h'[p].ride = r /\ ride[r].status # "NONE" /\ h'[p].pc \notin UpdatePlaces
  BY <1>1 DEF AcceptFindRider, Request, UpdatePlaces
<1>2. ASSUME NEW r \in Rides, NEW k \in Riders, UpdateFindRide(p, k, r)
      PROVE  /\ h'[p].ride = r /\ ride[r].status \in Active
             /\ h'[p].to = ALLOWED_STATUS_TRANSITIONS[ride[r].status]
  BY <1>2, ChainFacts DEF UpdateFindRide, Request
<1>3. ASSUME NEW r \in Rides, CancelFindRide(p, r)
      PROVE  h'[p].ride = r /\ ride[r].status # "NONE" /\ h'[p].pc \notin UpdatePlaces
  BY <1>3 DEF CancelFindRide, Request, UpdatePlaces
<1>4. QED
  BY <1>1, <1>2, <1>3 DEF NewRequest, Active

LEMMA StepStartedInv == TypeInv /\ StartedInv /\ [Next]_vars => StartedInv'
<1> SUFFICES ASSUME TypeInv, StartedInv, [Next]_vars,
                    NEW p \in Procs, h'[p].pc # "idle"
             PROVE  /\ ride'[h'[p].ride].status # "NONE"
                    /\ h'[p].pc \in UpdatePlaces =>
                           \E s \in Active : h'[p].to = ALLOWED_STATUS_TRANSITIONS[s]
  BY DEF StartedInv, UpdatePlaces
<1>1. CASE h'[p] = h[p]
  <2>1. h[p].ride \in Rides /\ ride[h[p].ride].status # "NONE"
    BY <1>1 DEF StartedInv, TypeInv, HandlersOK
  <2>2. QED
    BY <1>1, <2>1, BookedStays DEF StartedInv
<1>2. CASE h'[p] = Idle
  BY <1>2 DEF Idle
<1>3. CASE HandlerStep(p) /\ h'[p].ride = h[p].ride /\ h'[p].to = h[p].to
  <2>1. h[p].pc # "idle"
    BY <1>3
       DEF HandlerStep, AcceptFindRide, AcceptUpdate, UpdateFindMpesaPayment,
           UpdateFindCashPayment, UpdateSettleCash, UpdateRide, At,
           UpdateCreditRider, CancelUpdate, FindConversation, CloseConversation
  <2>2. h[p].ride \in Rides /\ ride[h[p].ride].status # "NONE"
    BY <2>1 DEF StartedInv, TypeInv, HandlersOK
  <2>3. QED
    BY <1>3, <2>2, BookedStays, HandlerTargets DEF StartedInv
<1>4. CASE NewRequest(p)
  <2>1. h'[p].ride \in Rides /\ ride[h'[p].ride].status # "NONE"
    BY <1>4, RequestFindsBooked
  <2>2. QED
    BY <1>4, <2>1, RequestFindsBooked, BookedStays
<1>5. QED
  BY HandlerMoves, <1>1, <1>2, <1>3, <1>4

(* What TripLifecycle needs to know of the state before a step.  The first *)
(* three hold whatever overlaps.                                           *)
LifeInv ==
    /\ TypeInv
    /\ AssignedInv
    /\ StartedInv
    /\ Regress \/ PaidInv
    /\ OnePerRide => SerialInv

LEMMA InitLifeInv == Init => LifeInv
<1>1. Init => PaidInv /\ SerialInv /\ StartedInv
  BY DEF Init, PaidInv, CompletedIsPaid, SerialInv, StartedInv, NoRide, Idle,
         GatePlaces, UpdatePlaces
<1>2. Init => AssignedInv
  BY DEF Init, AssignedInv, AssignedWhenUnderWay, ChatHasRider, NoRide, Idle,
         Active, UpdatePlaces
<1>3. QED
  BY <1>1, <1>2, InitTypeInv DEF LifeInv

LEMMA StepLifeInv == LifeInv /\ [Next]_vars => LifeInv'
<1> SUFFICES ASSUME LifeInv, [Next]_vars
             PROVE  LifeInv'
  OBVIOUS
<1>1. TypeInv' /\ AssignedInv' /\ StartedInv'
  BY StepTypeInv, StepAssignedInv, StepStartedInv DEF LifeInv
<1>2. Regress \/ PaidInv'
  BY StepPaidInv DEF LifeInv
<1>3. OnePerRide => SerialInv'
  BY StepSerialInv DEF LifeInv
<1>4. QED
  BY <1>1, <1>2, <1>3 DEF LifeInv

(* How the writes of the handlers look in TripLifecycle: the operation in  *)
(* its turn when the ride is still as it was found, a late one otherwise.  *)
LEMMA LifeStep ==
    ASSUME LifeInv, [Next]_vars
    PROVE  [Lifecycle!LifeNext]_(Lifecycle!lifeVars)
<1> DEFINE status == [r \in Rides |-> ride[r].status]
           assignee == [r \in Rides |-> ride[r].riderId]
           paid == [r \in Rides |-> pay[r].st = "COMPLETED"]
<1> USE DEF LifeInv, TypeInv, TypeOK, Row!Paid
<1>1. ASSUME NEW p \in Procs, AcceptUpdate(p)
      PROVE  Lifecycle!LifeNext
  <2> DEFINE r == h[p].ride
             k == h[p].rider
  <2>1. /\ r \in Rides /\ k \in Riders /\ paid' = paid /\ status[r] # "NONE"
        /\ OnePerRide => status[r] = "PENDING"
    BY <1>1, AcceptUpdateEffect DEF AcceptUpdate, At, SerialInv, StartedInv
  <2>2. /\ status' = [status EXCEPT ![r] = "ACCEPTED"]
        /\ assignee' = [assignee EXCEPT ![r] = k]
    BY <1>1, <2>1, AcceptUpdateEffect
  <2>3. CASE OnePerRide
    BY <2>1, <2>2, <2>3
       DEF Lifecycle!LifeNext, Lifecycle!TripStep, Lifecycle!Assign, Lifecycle!Move
  <2>4. CASE ~OnePerRide
    BY <2>1, <2>2, <2>4
       DEF Lifecycle!LifeNext, Lifecycle!LateStep, Lifecycle!LateAssign,
           Lifecycle!Move
  <2>5. QED
    BY <2>3, <2>4
<1>2. ASSUME NEW p \in Procs, UpdateRide(p)
      PROVE  Lifecycle!LifeNext
  <2> DEFINE r == h[p].ride
             to == h[p].to
  <2>1. /\ r \in Rides /\ paid' = paid
        /\ status[r] # "NONE" /\ assignee[r] # NoOne
    BY <1>2, UpdateRideEffect
       DEF UpdateRide, At, StartedInv, AssignedInv, UpdatePlaces
  <2>2. to = "COMPLETED" => paid[r] \/ Regress
    BY <1>2, <2>1 DEF UpdateRide, At, PaidInv
  <2>3. status' = [status EXCEPT ![r] = to] /\ assignee' = assignee
    BY <1>2, <2>1, UpdateRideEffect
  <2>4. CASE OnePerRide
    <3>1. status[r] \in Active /\ to = ALLOWED_STATUS_TRANSITIONS[status[r]]
      BY <1>2, <2>1, <2>4 DEF UpdateRide, At, SerialInv, GatePlaces
    <3>2. QED
      BY <2>1, <2>2, <2>3, <3>1, ChainFacts
         DEF Lifecycle!LifeNext, Lifecycle!TripStep, Lifecycle!Advance,
             Lifecycle!MayTake, Lifecycle!Move
  <2>5. CASE ~OnePerRide
    <3>1. \E s \in Active : to = ALLOWED_STATUS_TRANSITIONS[s]
      BY <1>2 DEF UpdateRide, At, StartedInv, UpdatePlaces
    <3>2. PICK s \in Active : to = ALLOWED_STATUS_TRANSITIONS[s]
      BY <3>1
    <3>3. /\ Lifecycle!MayTake(r, ALLOWED_STATUS_TRANSITIONS[s])
          /\ Lifecycle!Move(r, ALLOWED_STATUS_TRANSITIONS[s])
      BY <2>1, <2>2, <2>3, <3>2 DEF Lifecycle!MayTake, Lifecycle!Move
    <3>4. Lifecycle!LateAdvance(r)
      <4>1. s \in DOMAIN ALLOWED_STATUS_TRANSITIONS
        BY ChainFacts
      <4>2. \E x \in DOMAIN ALLOWED_STATUS_TRANSITIONS :
                /\ Lifecycle!MayTake(r, ALLOWED_STATUS_TRANSITIONS[x])
                /\ Lifecycle!Move(r, ALLOWED_STATUS_TRANSITIONS[x])
        BY <3>3, <4>1, Zenon
      <4> HIDE DEF to
      <4>3. QED
        BY <2>1, <2>3, <4>2 DEF Lifecycle!LateAdvance
    <3>5. QED
      BY <2>1, <2>5, <3>4 DEF Lifecycle!LifeNext, Lifecycle!LateStep
  <2>6. QED
    BY <2>4, <2>5
<1>3. ASSUME NEW p \in Procs, CancelUpdate(p)
      PROVE  Lifecycle!LifeNext
  <2> DEFINE r == h[p].ride
  <2>1. /\ r \in Rides /\ paid' = paid /\ status[r] # "NONE"
        /\ OnePerRide => status[r] \in {"PENDING", "ACCEPTED"}
    BY <1>3, CancelUpdateEffect DEF CancelUpdate, At, SerialInv, StartedInv
  <2>2. status' = [status EXCEPT ![r] = "CANCELLED"] /\ assignee' = assignee
    BY <1>3, <2>1, CancelUpdateEffect
  <2>3. CASE OnePerRide
    BY <2>1, <2>2, <2>3
       DEF Lifecycle!LifeNext, Lifecycle!TripStep, Lifecycle!Withdraw, Lifecycle!Move
  <2>4. CASE ~OnePerRide
    BY <2>1, <2>2, <2>4
       DEF Lifecycle!LifeNext, Lifecycle!LateStep, Lifecycle!LateWithdraw,
           Lifecycle!Move
  <2>5. QED
    BY <2>3, <2>4
<1>4. ASSUME NEW r \in Rides, NEW m \in {"MPESA", "CASH"}, CreateRide(r, m)
      PROVE  Lifecycle!LifeNext
  <2>1. status[r] = "NONE" /\ paid' = paid
    BY <1>4 DEF CreateRide
  <2>2. /\ \A q \in Rides : ride'[q].status = IF q = r THEN "PENDING" ELSE ride[q].status
        /\ \A q \in Rides : ride'[q].riderId = ride[q].riderId
    BY <1>4, CreateRideEffect
  <2>3. status' = [status EXCEPT ![r] = "PENDING"] /\ assignee' = assignee
    BY <2>2
  <2>4. QED
    BY <2>1, <2>3
       DEF Lifecycle!LifeNext, Lifecycle!TripStep, Lifecycle!Book, Lifecycle!Move
<1>5. ASSUME ride' = ride
      PROVE  [Lifecycle!LifeNext]_(Lifecycle!lifeVars)
  <2>1. UNCHANGED <<status, assignee>>
    BY <1>5
  <2>2. \/ paid' = paid
        \/ \E r \in Rides : paid' = [paid EXCEPT ![r] = TRUE]
        \/ Regress /\ \E r \in Rides : paid' = [paid EXCEPT ![r] = FALSE]
    <3>1. CASE pay' = pay
      BY <3>1
    <3>2. ASSUME NEW p \in Procs, UpdateSettleCash(p), pay' # pay
          PROVE  \E r \in Rides : paid' = [paid EXCEPT ![r] = TRUE]
      <4>1. h[p].ride \in Rides
        BY <3>2 DEF UpdateSettleCash, At, HandlersOK
      <4>2. pay' = [pay EXCEPT ![h[p].ride] = [st |-> "COMPLETED", method |-> "CASH"]]
        BY <3>2 DEF UpdateSettleCash, Row!CollectCash
      <4>3. \A r \in Rides :
                pay'[r].st = "COMPLETED" <=> r = h[p].ride \/ pay[r].st = "COMPLETED"
        BY <4>1, <4>2
      <4>4. QED
        BY <4>1, <4>3
    <3>3. ASSUME NEW r \in Rides, PaymentMoves(r)
          PROVE  \/ paid' = paid
                 \/ paid' = [paid EXCEPT ![r] = TRUE]
                 \/ Regress /\ paid' = [paid EXCEPT ![r] = FALSE]
      <4>1. CASE Row!SettleRow(r)
        BY <4>1 DEF Row!SettleRow, Row!PayRows
      <4>2. CASE Row!FailRow(r) \/ Row!ResendRow(r)
        <5>1. \A q \in Rides :
                  pay'[q].st = "COMPLETED" <=> q # r /\ pay[q].st = "COMPLETED"
          BY <4>2 DEF Row!FailRow, Row!ResendRow, Row!PayRows
        <5>2. pay[r].st = "COMPLETED" => Regress
          BY <4>2 DEF Row!FailRow, Row!ResendRow, Row!Open
        <5>3. CASE pay[r].st = "COMPLETED"
          BY <5>1, <5>2, <5>3
        <5>4. CASE pay[r].st # "COMPLETED"
          BY <5>1, <5>4
        <5>5. QED
          BY <5>3, <5>4
      <4>3. ASSUME NEW m \in Row!PayMethods, Row!CreateRow(r, m)
            PROVE  paid' = paid
        BY <4>3 DEF Row!CreateRow
      <4>4. QED
        BY <3>3, <4>1, <4>2, <4>3 DEF PaymentMoves, Row!PaymentStep
    <3>4. QED
      BY OtherWriters, <3>1, <3>2, <3>3
  <2>3. QED
    BY <2>1, <2>2
       DEF Lifecycle!LifeNext, Lifecycle!TripStep, Lifecycle!Pay, Lifecycle!Unpay,
           Lifecycle!lifeVars
<1>6. QED
  BY RideWriters, <1>1, <1>2, <1>3, <1>4, <1>5

(* The split handlers of RidesService implement the life of a trip,        *)
(* whatever requests overlap, fail or repeat: with every operation in its  *)
(* turn when the requests on one ride do not overlap, with late ones when  *)
(* they do, on payments that are final or not.                             *)
THEOREM RidesKeepTripPromise == Spec => KeepsTripPromise
<1>1. Init => Lifecycle!LifeInit
  <2> SUFFICES ASSUME Init
               PROVE  Lifecycle!LifeInit
    OBVIOUS
  <2>1. \A r \in Rides : Row!Paid(r) = FALSE
    BY DEF Init, Row!RowInit, Row!NoPay, Row!Paid
  <2>2. [r \in Rides |-> Row!Paid(r)] = [r \in Rides |-> FALSE]
    BY <2>1, Zenon
  <2>3. QED
    BY <2>2 DEF Init, Lifecycle!LifeInit, NoRide
<1>2. QED
  BY InitLifeInv, StepLifeInv, LifeStep, <1>1,
     PTL DEF Spec, KeepsTripPromise, Lifecycle!LifeSpec

-----------------------------------------------------------------------------
(* What is done after a ride has ended finds it as it was left: an ended   *)
(* ride is never written again, so that closing its chat and crediting its *)
(* rider, some awaits later, are about the same ride.                      *)

ChatPlaces == {"findConversation", "closeConversation"}

SettledInv ==
    /\ \A p \in Procs :
          /\ h[p].pc \in UpdatePlaces => ride[h[p].ride].riderId = h[p].rider
          /\ h[p].pc = "update.creditRider" =>
                 /\ ride[h[p].ride].status = "COMPLETED"
                 /\ ride[h[p].ride].riderEarnings = h[p].earned
          /\ h[p].pc \in ChatPlaces => ride[h[p].ride].status \in Ended
    /\ ClosedChatMeansEnded

(* A completion, with what it leaves for the next calls of the handler.    *)
LEMMA CompletionEffect ==
    ASSUME TypeInv, NEW p \in Procs, UpdateRide(p), h[p].to = "COMPLETED"
    PROVE  /\ \A q \in Rides : ride'[q].riderEarnings =
                  IF q = h[p].ride THEN Earnings(h[p].ride, pct) ELSE ride[q].riderEarnings
           /\ h'[p].pc = "update.creditRider" /\ h'[p].earned = Earnings(h[p].ride, pct)
           /\ h'[p].ride = h[p].ride /\ h'[p].rider = h[p].rider
           /\ \A q \in Procs \ {p} : h'[q] = h[q]
           /\ rider' = rider
<1> DEFINE r == h[p].ride
           earned == Earnings(r, pct)
           x == [ride[r] EXCEPT !.status = h[p].to, !.riderEarnings = earned]
           y == [h[p] EXCEPT !.pc = "update.creditRider", !.earned = earned]
<1>1. r \in Rides
  BY UpdateRideEffect
<1>2. ride' = [ride EXCEPT ![r] = x] /\ h' = [h EXCEPT ![p] = y] /\ rider' = rider
  BY DEF UpdateRide
<1>3. x.riderEarnings = earned
  BY <1>1 DEF TypeInv, TypeOK, RideRows
<1>4. y.pc = "update.creditRider" /\ y.earned = earned /\ y.ride = r /\ y.rider = h[p].rider
  BY DEF TypeInv, TypeOK, HandlerRecords
<1> HIDE DEF x, y, earned
<1>5. QED
  BY <1>1, <1>2, <1>3, <1>4 DEF TypeInv, TypeOK, earned

(* Only a completion writes what the rider earned.                         *)
LEMMA EarningsEffect ==
    ASSUME TypeInv, [Next]_vars, NEW r \in Rides
    PROVE  \/ ride'[r].riderEarnings = ride[r].riderEarnings
           \/ \E p \in Procs : UpdateRide(p) /\ h[p].to = "COMPLETED" /\ h[p].ride = r
<1> USE DEF TypeInv, TypeOK, RideRows
<1>1. ASSUME NEW p \in Procs, AcceptUpdate(p)
      PROVE  ride'[r].riderEarnings = ride[r].riderEarnings
  <2>1. h[p].ride \in Rides
    BY <1>1, AcceptUpdateEffect
  <2>2. QED
    BY <1>1, <2>1 DEF AcceptUpdate
<1>2. ASSUME NEW p \in Procs, CancelUpdate(p)
      PROVE  ride'[r].riderEarnings = ride[r].riderEarnings
  BY <1>2 DEF CancelUpdate
<1>3. ASSUME NEW q \in Rides, NEW m \in {"MPESA", "CASH"}, CreateRide(q, m)
      PROVE  ride'[r].riderEarnings = ride[r].riderEarnings
  BY <1>3 DEF CreateRide
<1>4. ASSUME NEW p \in Procs, UpdateRide(p)
      PROVE  \/ ride'[r].riderEarnings = ride[r].riderEarnings
             \/ h[p].to = "COMPLETED" /\ h[p].ride = r
  <2>1. CASE h[p].to = "COMPLETED"
    BY <1>4, <2>1, CompletionEffect
  <2>2. CASE h[p].to # "COMPLETED"
    BY <1>4, <2>2 DEF UpdateRide
  <2>3. QED
    BY <2>1, <2>2
<1>5. QED
  BY RideWriters, <1>1, <1>2, <1>3, <1>4

LEMMA EndedStays ==
    ASSUME TypeInv, SerialInv, [Next]_vars, NEW r \in Rides, ride[r].status \in Ended
    PROVE  /\ ride'[r].status = ride[r].status /\ ride'[r].riderId = ride[r].riderId
           /\ ride'[r].riderEarnings = ride[r].riderEarnings
<1>1. ASSUME NEW p \in Procs, AcceptUpdate(p) \/ UpdateRide(p) \/ CancelUpdate(p)
      PROVE  h[p].ride # r
  BY <1>1
     DEF AcceptUpdate, UpdateRide, CancelUpdate, At, SerialInv, GatePlaces, Ended, Active
<1>2. ASSUME NEW q \in Rides, NEW m \in {"MPESA", "CASH"}, CreateRide(q, m)
      PROVE  q # r
  BY <1>2 DEF CreateRide, Ended
<1>3. ride'[r].riderEarnings = ride[r].riderEarnings
  BY <1>1, EarningsEffect
<1>4. ride'[r].status = ride[r].status /\ ride'[r].riderId = ride[r].riderId
  BY RideWriters, <1>1, <1>2, AcceptUpdateEffect, UpdateRideEffect, CancelUpdateEffect,
     CreateRideEffect
<1>5. QED
  BY <1>3, <1>4

(* Nobody takes over a ride whose rider is moving it along.                *)
LEMMA UpdatersRider ==
    ASSUME TypeInv, SerialInv, [Next]_vars, NEW p \in Procs, h[p].pc \in UpdatePlaces
    PROVE  ride'[h[p].ride].riderId = ride[h[p].ride].riderId
<1>1. h[p].ride \in Rides /\ h[p].pc # "idle"
  BY DEF TypeInv, HandlersOK, UpdatePlaces
<1>2. ASSUME NEW q \in Procs, AcceptUpdate(q)
      PROVE  h[q].ride # h[p].ride
  BY <1>1, <1>2 DEF AcceptUpdate, At, SerialInv, UpdatePlaces
<1>3. QED
  BY RideWriters, <1>1, <1>2, AcceptUpdateEffect, UpdateRideEffect, CancelUpdateEffect,
     CreateRideEffect

(* What leads to the calls made after a ride has ended.                    *)
LEMMA SettlingTargets ==
    ASSUME TypeInv, NEW p \in Procs, HandlerStep(p)
    PROVE  /\ h'[p].pc = "update.creditRider" => UpdateRide(p) /\ h[p].to = "COMPLETED"
           /\ h'[p].pc \in ChatPlaces =>
                  UpdateCreditRider(p) \/ CancelUpdate(p) \/ FindConversation(p)
<1> USE DEF TypeInv, TypeOK, HandlerRecords, At, Goto, ChatPlaces
<1>1. CASE Return(p)
  BY <1>1 DEF Return, Idle
<1>2. CASE /\ ~Return(p)
           /\ \/ AcceptFindRide(p) \/ AcceptUpdate(p) \/ UpdateFindMpesaPayment(p)
              \/ UpdateSettleCash(p) \/ CloseConversation(p)
  BY <1>2
     DEF AcceptFindRide, AcceptUpdate, UpdateFindMpesaPayment, UpdateSettleCash,
         CloseConversation
<1>3. CASE UpdateCreditRider(p) \/ CancelUpdate(p) \/ FindConversation(p)
  BY <1>1, <1>3 DEF UpdateCreditRider, CancelUpdate, FindConversation
<1>4. CASE UpdateFindCashPayment(p)
  <2> DEFINE pc == IF pay[h[p].ride].st = "COMPLETED" THEN "update.update"
                                                     ELSE "update.settleCash"
             x == [h[p] EXCEPT !.seen = pay[h[p].ride].st, !.pc = pc]
  <2>1. h'[p] = x /\ x.pc = pc
    BY <1>4 DEF UpdateFindCashPayment
  <2>2. QED
    BY <2>1
<1>5. CASE UpdateRide(p) /\ ~Return(p)
  <2>1. h[p].to = "COMPLETED"
    BY <1>5 DEF UpdateRide
  <2>2. QED
    BY <1>5, <2>1, CompletionEffect
<1>6. QED
  BY <1>1, <1>2, <1>3, <1>4, <1>5 DEF HandlerStep

LEMMA StepSettledInv ==
    ASSUME TypeInv, SerialInv, SettledInv, [Next]_vars
    PROVE  SettledInv'
<1>1. ASSUME NEW p \in Procs, h[p].pc \in UpdatePlaces
      PROVE  ride'[h[p].ride].riderId = h[p].rider
  BY <1>1, UpdatersRider DEF SettledInv
<1>2. ASSUME NEW p \in Procs, h'[p].pc \in UpdatePlaces
      PROVE  ride'[h'[p].ride].riderId = h'[p].rider
  <2>1. CASE h'[p] = h[p]
    BY <1>1, <1>2, <2>1
  <2>2. CASE h'[p] = Idle
    BY <1>2, <2>2 DEF Idle, UpdatePlaces
  <2>3. CASE HandlerStep(p) /\ h'[p].ride = h[p].ride /\ h'[p].rider = h[p].rider
    BY <1>1, <1>2, <2>3, HandlerTargets
  <2>4. CASE NewRequest(p)
    BY <1>2, <2>4, RequestTargets DEF UpdateFindRide
  <2>5. QED
    BY HandlerMoves, <2>1, <2>2, <2>3, <2>4
<1>3. ASSUME NEW p \in Procs, h[p].ride \in Rides, ride[h[p].ride].status \in Ended
      PROVE  /\ ride'[h[p].ride].status = ride[h[p].ride].status
             /\ ride'[h[p].ride].riderEarnings = ride[h[p].ride].riderEarnings
  BY <1>3, EndedStays
<1>4. ASSUME NEW p \in Procs, h[p].pc \in ChatPlaces \cup {"update.creditRider"}
      PROVE  /\ h[p].ride \in Rides /\ ride'[h[p].ride].status \in Ended
             /\ ride'[h[p].ride].status = ride[h[p].ride].status
             /\ ride'[h[p].ride].riderEarnings = ride[h[p].ride].riderEarnings
  BY <1>3, <1>4 DEF TypeInv, HandlersOK, SettledInv, ChatPlaces, Ended
<1>5. ASSUME NEW p \in Procs, h'[p].pc = "update.creditRider"
      PROVE  /\ ride'[h'[p].ride].status = "COMPLETED"
             /\ ride'[h'[p].ride].riderEarnings = h'[p].earned
  <2>1. CASE h'[p] = h[p]
    BY <1>4, <1>5, <2>1 DEF SettledInv
  <2>2. CASE h'[p] = Idle
    BY <1>5, <2>2 DEF Idle
  <2>3. CASE HandlerStep(p)
    <3>1. UpdateRide(p) /\ h[p].to = "COMPLETED"
      BY <1>5, <2>3, SettlingTargets
    <3>2. QED
      BY <3>1, CompletionEffect, UpdateRideEffect
  <2>4. CASE NewRequest(p)
    BY <1>5, <2>4, RequestTargets DEF UpdatePlaces
  <2>5. QED
    BY HandlerMoves, <2>1, <2>2, <2>3, <2>4
<1>6. ASSUME NEW p \in Procs, h'[p].pc \in ChatPlaces
      PROVE  ride'[h'[p].ride].status \in Ended
  <2>1. CASE h'[p] = h[p]
    BY <1>4, <1>6, <2>1
  <2>2. CASE h'[p] = Idle
    BY <1>6, <2>2 DEF Idle, ChatPlaces
  <2>3. CASE HandlerStep(p) /\ h'[p].ride = h[p].ride
    <3>1. CASE UpdateCreditRider(p) \/ FindConversation(p)
      BY <1>4, <2>3, <3>1 DEF UpdateCreditRider, FindConversation, At, ChatPlaces
    <3>2. CASE CancelUpdate(p)
      BY <2>3, <3>2, CancelUpdateEffect DEF Ended
    <3>3. QED
      BY <1>6, <2>3, <3>1, <3>2, SettlingTargets
  <2>4. CASE NewRequest(p)
    <3>1. h'[p].pc \notin ChatPlaces
      BY <2>4 DEF NewRequest, AcceptFindRider, UpdateFindRide, CancelFindRide, Request,
                  ChatPlaces, TypeInv, TypeOK
    <3>2. QED
      BY <1>6, <3>1
  <2>5. QED
    BY HandlerMoves, <2>1, <2>2, <2>3, <2>4
<1>7. ASSUME NEW r \in Rides, conv'[r] = "CLOSED"
      PROVE  ride'[r].status \in Ended
  <2>1. CASE conv[r] = "CLOSED"
    BY <2>1, EndedStays DEF SettledInv, ClosedChatMeansEnded
  <2>2. ASSUME NEW p \in Procs, CloseConversation(p), conv[r] # "CLOSED"
        PROVE  ride'[r].status \in Ended
    <3>1. r = h[p].ride /\ h[p].pc \in ChatPlaces
      BY <1>7, <2>2 DEF CloseConversation, At, ChatPlaces, TypeInv, TypeOK
    <3>2. QED
      BY <1>4, <3>1
  <2>3. ASSUME NEW q \in Rides, CreateConversation(q)
        PROVE  conv[r] = "CLOSED"
    BY <1>7, <2>3 DEF CreateConversation, TypeInv, TypeOK
  <2>4. QED
    BY <1>7, <2>1, <2>2, <2>3, OtherWriters
<1>8. QED
  BY <1>2, <1>5, <1>6, <1>7 DEF SettledInv, ClosedChatMeansEnded

LEMMA InitSettledInv == Init => SerialInv /\ SettledInv
  BY DEF Init, SerialInv, SettledInv, ClosedChatMeansEnded, NoRide, Idle, GatePlaces,
         UpdatePlaces, ChatPlaces

(* No chat is closed before its ride has ended, nor does a ride with a     *)
(* closed chat come back to life, when the requests on a ride take turns,  *)
(* whatever fails in between.                                              *)
THEOREM ChatsCloseAtTheEnd ==
    ASSUME OnePerRide
    PROVE  Spec => []ClosedChatMeansEnded
<1>1. SettledInv => ClosedChatMeansEnded
  BY DEF SettledInv
<1>2. TypeInv /\ SerialInv /\ SettledInv /\ [Next]_vars => SettledInv'
  BY StepSettledInv
<1>3. QED
  BY InitTypeInv, StepTypeInv, InitSettledInv, StepSerialInv, <1>1, <1>2, PTL DEF Spec

-----------------------------------------------------------------------------
(* Nothing a rider has earned is lost or counted twice.  A completion puts *)
(* the ride in the books and its handler on its way to the rider's totals; *)
(* the increment takes the handler off again.                              *)

Completion(p) == UpdateRide(p) /\ h[p].to = "COMPLETED"

(* Unless calls fail, a handler leaves its place by its own next call.     *)
LEMMA OnlyOwnSteps ==
    ASSUME ~Faults, TypeInv, [Next]_vars, NEW p \in Procs, h[p].pc # "idle"
    PROVE  h'[p] = h[p] \/ HandlerStep(p)
<1> USE DEF TypeInv, TypeOK
<1>1. ASSUME NEW q \in Procs, HandlerStep(q), q # p
      PROVE  h'[p] = h[p]
  BY <1>1
     DEF HandlerStep, AcceptFindRide, AcceptUpdate, UpdateFindMpesaPayment,
         UpdateFindCashPayment, UpdateSettleCash, UpdateRide,
         UpdateCreditRider, CancelUpdate, FindConversation,
         CloseConversation, Goto, Return
<1>2. ASSUME NEW q \in Procs, NewRequest(q)
      PROVE  h'[p] = h[p]
  <2>1. q # p
    BY <1>2 DEF NewRequest, AcceptFindRider, UpdateFindRide, CancelFindRide, Free
  <2>2. QED
    BY <1>2, <2>1 DEF NewRequest, AcceptFindRider, UpdateFindRide, CancelFindRide
<1>3. ASSUME NEW r \in Rides, CreateConversation(r) \/ TaskFails(r)
      PROVE  h'[p] = h[p]
  BY <1>3 DEF CreateConversation, TaskFails
<1>4. ASSUME Environment
      PROVE  h'[p] = h[p]
  BY <1>4 DEF Environment, CreateRide, SetEligibility, SetCommission, PaymentMoves
<1>5. CASE UNCHANGED vars
  BY <1>5 DEF vars
<1>6. QED
  BY <1>1, <1>2, <1>3, <1>4, <1>5 DEF Next, HandlerFails

LEMMA CreditingHandlers ==
    ASSUME ~Faults, TypeInv, [Next]_vars, NEW p \in Procs
    PROVE  /\ h[p].pc = "update.creditRider" => h'[p] = h[p] \/ UpdateCreditRider(p)
           /\ h'[p].pc = "update.creditRider" => h'[p] = h[p] \/ Completion(p)
<1>1. ASSUME h[p].pc = "update.creditRider", HandlerStep(p)
      PROVE  UpdateCreditRider(p)
  BY <1>1
     DEF HandlerStep, AcceptFindRide, AcceptUpdate, UpdateFindMpesaPayment,
         UpdateFindCashPayment, UpdateSettleCash, UpdateRide, CancelUpdate,
         FindConversation, CloseConversation, At
<1>2. ASSUME h'[p].pc = "update.creditRider"
      PROVE  h'[p] = h[p] \/ Completion(p)
  BY <1>2, HandlerMoves, SettlingTargets, RequestTargets DEF Idle, UpdatePlaces, Completion
<1>3. QED
  BY <1>1, <1>2, OnlyOwnSteps

(* Only the increment writes a rider's totals.                             *)
LEMMA TotalsWriters ==
    ASSUME TypeInv, [Next]_vars
    PROVE  \/ \A k \in Riders : /\ rider'[k].totalRides = rider[k].totalRides
                                /\ rider'[k].totalEarnings = rider[k].totalEarnings
           \/ \E p \in Procs : UpdateCreditRider(p)
<1>1. ASSUME NEW p \in Procs, HandlerStep(p)
      PROVE  rider' = rider \/ UpdateCreditRider(p)
  BY <1>1
     DEF HandlerStep, AcceptFindRide, AcceptUpdate, UpdateFindMpesaPayment,
         UpdateFindCashPayment, UpdateSettleCash, UpdateRide, CancelUpdate,
         FindConversation, CloseConversation
<1>2. ASSUME NEW p \in Procs, NewRequest(p) \/ HandlerFails(p)
      PROVE  rider' = rider
  BY <1>2
     DEF NewRequest, AcceptFindRider, UpdateFindRide, CancelFindRide, HandlerFails
<1>3. ASSUME NEW r \in Rides, CreateConversation(r) \/ TaskFails(r)
      PROVE  rider' = rider
  BY <1>3 DEF CreateConversation, TaskFails
<1>4. ASSUME Environment
      PROVE  \A k \in Riders : /\ rider'[k].totalRides = rider[k].totalRides
                               /\ rider'[k].totalEarnings = rider[k].totalEarnings
  <2>1. ASSUME NEW k \in Riders, NEW b \in BOOLEAN, SetEligibility(k, b)
        PROVE  \A j \in Riders : /\ rider'[j].totalRides = rider[j].totalRides
                                 /\ rider'[j].totalEarnings = rider[j].totalEarnings
    BY <2>1 DEF SetEligibility, TypeInv, TypeOK, RiderRows
  <2>2. rider' = rider \/ \E k \in Riders, b \in BOOLEAN : SetEligibility(k, b)
    BY <1>4 DEF Environment, CreateRide, SetCommission, PaymentMoves
  <2>3. QED
    BY <2>1, <2>2
<1>5. CASE UNCHANGED vars
  BY <1>5 DEF vars
<1>6. QED
  BY <1>1, <1>2, <1>3, <1>4, <1>5 DEF Next

(* Only a completion adds a ride to those a rider has finished.            *)
LEMMA FinishedRides ==
    ASSUME TypeInv, SerialInv, [Next]_vars, NEW k, ~\E p \in Procs : Completion(p)
    PROVE  /\ CompletedBy(k)' = CompletedBy(k)
           /\ \A r \in CompletedBy(k) : ride'[r].riderEarnings = ride[r].riderEarnings
<1>1. ASSUME NEW r \in Rides, ride[r].status = "COMPLETED"
      PROVE  /\ ride'[r].status = "COMPLETED" /\ ride'[r].riderId = ride[r].riderId
             /\ ride'[r].riderEarnings = ride[r].riderEarnings
  BY <1>1, EndedStays DEF Ended
<1>2. ASSUME NEW r \in Rides, ride'[r].status = "COMPLETED"
      PROVE  ride[r].status = "COMPLETED"
  <2>1. ASSUME NEW p \in Procs, UpdateRide(p)
        PROVE  ride[r].status = "COMPLETED"
    BY <1>2, <2>1, UpdateRideEffect DEF Completion
  <2>2. QED
    BY <1>2, <2>1, RideWriters, AcceptUpdateEffect, CancelUpdateEffect, CreateRideEffect
<1>3. QED
  BY <1>1, <1>2 DEF CompletedBy

(* What the sums range over.                                               *)
LEMMA BooksAreFinite ==
    ASSUME TypeInv, NEW k \in Riders
    PROVE  /\ IsFiniteSet(CompletedBy(k)) /\ IsFiniteSet(CreditingFor(k))
           /\ Cardinality(CompletedBy(k)) \in Nat /\ Cardinality(CreditingFor(k)) \in Nat
           /\ \A r \in CompletedBy(k) : r \in Rides /\ ride[r].riderEarnings \in Int
           /\ \A p \in CreditingFor(k) : p \in Procs /\ h[p].earned \in Int
           /\ rider[k].totalRides \in Int /\ rider[k].totalEarnings \in Int
<1>1. CompletedBy(k) \subseteq Rides /\ CreditingFor(k) \subseteq Procs
  BY DEF CompletedBy, CreditingFor
<1>2. IsFiniteSet(CompletedBy(k)) /\ IsFiniteSet(CreditingFor(k))
  BY <1>1, FS_Subset, RidesAssumption
<1>3. QED
  BY <1>1, <1>2, FS_CardinalityType DEF TypeInv, TypeOK, RideRows, HandlerRecords, RiderRows

Due(k) == SumFunctionOnSet([p \in Procs |-> h[p].earned], CreditingFor(k))
Earned(k) == SumFunctionOnSet([r \in Rides |-> ride[r].riderEarnings], CompletedBy(k))

LEMMA BooksAreNumbers ==
    ASSUME TypeInv, NEW k \in Riders
    PROVE  Due(k) \in Int /\ Earned(k) \in Int
<1>1. \A p \in CreditingFor(k) : [q \in Procs |-> h[q].earned][p] \in Int
  BY BooksAreFinite
<1>2. \A r \in CompletedBy(k) : [q \in Rides |-> ride[q].riderEarnings][r] \in Int
  BY BooksAreFinite
<1>3. QED
  BY <1>1, <1>2, BooksAreFinite, SumType DEF Due, Earned

(* The sums stay when nobody joins or leaves.                              *)
LEMMA SameDue ==
    ASSUME TypeInv, NEW k \in Riders, CreditingFor(k)' = CreditingFor(k),
           \A p \in CreditingFor(k) : h'[p] = h[p]
    PROVE  Due(k)' = Due(k)
<1> DEFINE f == [p \in Procs |-> h[p].earned]
           e == [p \in Procs |-> h'[p].earned]
           S == CreditingFor(k)
<1>1. IsFiniteSet(S) /\ \A p \in S : f[p] \in Int /\ e[p] = f[p]
  BY BooksAreFinite
<1> HIDE DEF f, e, S
<1>2. SumFunctionOnSet(e, S) = SumFunctionOnSet(f, S)
  BY <1>1, SumAgrees
<1>3. QED
  BY <1>2 DEF Due, f, e, S

LEMMA SameEarned ==
    ASSUME TypeInv, NEW k \in Riders, CompletedBy(k)' = CompletedBy(k),
           \A r \in CompletedBy(k) : ride'[r].riderEarnings = ride[r].riderEarnings
    PROVE  Earned(k)' = Earned(k)
<1> DEFINE f == [r \in Rides |-> ride[r].riderEarnings]
           e == [r \in Rides |-> ride'[r].riderEarnings]
           S == CompletedBy(k)
<1>1. IsFiniteSet(S) /\ \A r \in S : f[r] \in Int /\ e[r] = f[r]
  BY BooksAreFinite
<1> HIDE DEF f, e, S
<1>2. SumFunctionOnSet(e, S) = SumFunctionOnSet(f, S)
  BY <1>1, SumAgrees
<1>3. QED
  BY <1>2 DEF Earned, f, e, S

(* A ride just finished, and a handler at work for its rider, join.        *)
LEMMA CompletionBooks ==
    ASSUME ~Faults, TypeInv, SerialInv, SettledInv, [Next]_vars,
           NEW k \in Riders, NEW p \in Procs, Completion(p), h[p].rider = k
    PROVE  /\ Due(k)' = Due(k) + h'[p].earned
           /\ Cardinality(CreditingFor(k)') = Cardinality(CreditingFor(k)) + 1
           /\ Earned(k)' = Earned(k) + h'[p].earned
           /\ Cardinality(CompletedBy(k)') = Cardinality(CompletedBy(k)) + 1
<1> DEFINE r == h[p].ride
           C == CompletedBy(k)
           P == CreditingFor(k)
           f == [q \in Procs |-> h[q].earned]
           f2 == [q \in Procs |-> h'[q].earned]
           e == [q \in Rides |-> ride[q].riderEarnings]
           e2 == [q \in Rides |-> ride'[q].riderEarnings]
<1>1. /\ UpdateRide(p) /\ h[p].to = "COMPLETED" /\ h[p].pc = "update.update"
      /\ r \in Rides /\ ride[r].status \in Active /\ ride[r].riderId = k
  BY UpdateRideEffect
     DEF Completion, UpdateRide, At, SerialInv, SettledInv, GatePlaces, UpdatePlaces
<1>2. /\ h'[p].pc = "update.creditRider" /\ h'[p].earned = Earnings(r, pct)
      /\ h'[p].rider = k /\ \A q \in Procs \ {p} : h'[q] = h[q]
      /\ \A q \in Rides : ride'[q].riderEarnings =
             IF q = r THEN Earnings(r, pct) ELSE ride[q].riderEarnings
  BY <1>1, CompletionEffect
<1>3. Earnings(r, pct) \in Int
  BY <1>1, EarningsNat DEF TypeInv, TypeOK
<1>4. p \notin P /\ CreditingFor(k)' = P \cup {p}
  BY <1>1, <1>2 DEF CreditingFor, At
<1>5. r \notin C /\ CompletedBy(k)' = C \cup {r}
  BY <1>1, UpdateRideEffect DEF CompletedBy, Active
<1>6. IsFiniteSet(P) /\ (\A q \in P : f[q] \in Int /\ f2[q] = f[q]) /\ f2[p] \in Int
  BY <1>2, <1>3, <1>4, BooksAreFinite
<1>7. /\ IsFiniteSet(C) /\ (\A q \in C : e[q] \in Int /\ e2[q] = e[q])
      /\ e2[r] \in Int /\ e2[r] = f2[p]
  BY <1>1, <1>2, <1>3, <1>5, BooksAreFinite
<1>8. f2[p] = h'[p].earned
  OBVIOUS
<1> HIDE DEF C, P, f, f2, e, e2, r
<1>9. /\ SumFunctionOnSet(f2, P \cup {p}) = SumFunctionOnSet(f, P) + f2[p]
      /\ Cardinality(P \cup {p}) = Cardinality(P) + 1
  <2>1. IsFiniteSet(P) /\ p \notin P /\ f2[p] \in Int
    BY <1>4, <1>6
  <2>2. \A q \in P : f[q] \in Int /\ f2[q] = f[q]
    BY <1>6
  <2>3. QED
    BY <2>1, <2>2, SumGains
<1>10. /\ SumFunctionOnSet(e2, C \cup {r}) = SumFunctionOnSet(e, C) + e2[r]
       /\ Cardinality(C \cup {r}) = Cardinality(C) + 1
  BY <1>5, <1>7, SumGains
<1>11. Due(k)' = SumFunctionOnSet(f2, CreditingFor(k)') /\ Due(k) = SumFunctionOnSet(f, P)
  BY DEF Due, f, f2, P
<1>12. Earned(k)' = SumFunctionOnSet(e2, CompletedBy(k)') /\ Earned(k) = SumFunctionOnSet(e, C)
  BY DEF Earned, e, e2, C
<1>13. CreditingFor(k)' = P \cup {p} /\ CompletedBy(k)' = C \cup {r}
  BY <1>4, <1>5
<1>14. QED
  BY <1>7, <1>8, <1>9, <1>10, <1>11, <1>12, <1>13 DEF C, P

(* A completion does not touch the books of another rider.                 *)
LEMMA OtherBooks ==
    ASSUME ~Faults, TypeInv, SerialInv, SettledInv, [Next]_vars,
           NEW k \in Riders, NEW p \in Procs, Completion(p), h[p].rider # k
    PROVE  /\ CreditingFor(k)' = CreditingFor(k) /\ Due(k)' = Due(k)
           /\ CompletedBy(k)' = CompletedBy(k) /\ Earned(k)' = Earned(k)
<1> DEFINE r == h[p].ride
<1>1. /\ UpdateRide(p) /\ h[p].to = "COMPLETED" /\ h[p].pc = "update.update"
      /\ r \in Rides /\ ride[r].riderId # k
  BY UpdateRideEffect DEF Completion, UpdateRide, At, SettledInv, UpdatePlaces
<1>2. /\ h'[p].pc = "update.creditRider" /\ h'[p].rider = h[p].rider
      /\ \A q \in Procs \ {p} : h'[q] = h[q]
      /\ \A q \in Rides \ {r} : ride'[q].riderEarnings = ride[q].riderEarnings
  BY <1>1, CompletionEffect
<1>3. CreditingFor(k)' = CreditingFor(k) /\ \A q \in CreditingFor(k) : h'[q] = h[q]
  BY <1>1, <1>2 DEF CreditingFor, At
<1>4. /\ CompletedBy(k)' = CompletedBy(k)
      /\ \A q \in CompletedBy(k) : ride'[q].riderEarnings = ride[q].riderEarnings
  BY <1>1, <1>2, UpdateRideEffect DEF CompletedBy
<1>5. QED
  BY <1>3, <1>4, SameDue, SameEarned

(* The increment takes its handler off, and adds what it carried.          *)
LEMMA IncrementBooks ==
    ASSUME ~Faults, TypeInv, SerialInv, [Next]_vars,
           NEW k \in Riders, NEW p \in Procs, UpdateCreditRider(p)
    PROVE  /\ CompletedBy(k)' = CompletedBy(k) /\ Earned(k)' = Earned(k)
           /\ h[p].rider # k =>
                  /\ CreditingFor(k)' = CreditingFor(k) /\ Due(k)' = Due(k)
                  /\ rider'[k] = rider[k]
           /\ h[p].rider = k =>
                  /\ Cardinality(CreditingFor(k)') = Cardinality(CreditingFor(k)) - 1
                  /\ Due(k)' = Due(k) - h[p].earned
                  /\ rider'[k].totalRides = rider[k].totalRides + 1
                  /\ rider'[k].totalEarnings = rider[k].totalEarnings + h[p].earned
<1> DEFINE P == CreditingFor(k)
           f == [q \in Procs |-> h[q].earned]
           f2 == [q \in Procs |-> h'[q].earned]
<1>1. /\ h[p].pc = "update.creditRider" /\ h[p].rider \in Riders /\ ride' = ride
      /\ rider' = [rider EXCEPT ![h[p].rider] = Credited(rider[h[p].rider], h[p].earned)]
      /\ h' = [h EXCEPT ![p].pc = "findConversation"]
  BY DEF UpdateCreditRider, At, Goto, TypeInv, HandlersOK, UpdatePlaces
<1>2. h'[p].pc = "findConversation" /\ \A q \in Procs \ {p} : h'[q] = h[q]
  BY <1>1 DEF TypeInv, TypeOK, HandlerRecords
<1>3. CompletedBy(k)' = CompletedBy(k) /\ Earned(k)' = Earned(k)
  BY <1>1 DEF CompletedBy, Earned
<1>4. ASSUME h[p].rider # k
      PROVE  /\ CreditingFor(k)' = CreditingFor(k) /\ Due(k)' = Due(k)
             /\ rider'[k] = rider[k]
  <2>1. rider'[k] = rider[k]
    BY <1>1, <1>4 DEF TypeInv, TypeOK
  <2>2. CreditingFor(k)' = CreditingFor(k) /\ \A q \in CreditingFor(k) : h'[q] = h[q]
    BY <1>2, <1>4 DEF CreditingFor, At
  <2>3. QED
    BY <2>1, <2>2, SameDue
<1>5. ASSUME h[p].rider = k
      PROVE  /\ Cardinality(CreditingFor(k)') = Cardinality(CreditingFor(k)) - 1
             /\ Due(k)' = Due(k) - h[p].earned
             /\ rider'[k].totalRides = rider[k].totalRides + 1
             /\ rider'[k].totalEarnings = rider[k].totalEarnings + h[p].earned
  <2>1. rider'[k] = Credited(rider[k], h[p].earned)
    BY <1>1, <1>5 DEF TypeInv, TypeOK
  <2>2. /\ Credited(rider[k], h[p].earned).totalRides = rider[k].totalRides + 1
        /\ Credited(rider[k], h[p].earned).totalEarnings
               = rider[k].totalEarnings + h[p].earned
    BY DEF Credited, TypeInv, TypeOK, RiderRows
  <2>3. p \in P /\ CreditingFor(k)' = P \ {p}
    BY <1>1, <1>2, <1>5 DEF CreditingFor, At
  <2>4. /\ IsFiniteSet(P) /\ (\A q \in P : f[q] \in Int)
        /\ (\A q \in P \ {p} : f2[q] = f[q]) /\ f[p] = h[p].earned
    BY <1>2, BooksAreFinite DEF CreditingFor
  <2>5. Due(k)' = SumFunctionOnSet(f2, CreditingFor(k)') /\ Due(k) = SumFunctionOnSet(f, P)
    BY DEF Due
  <2> HIDE DEF P, f, f2
  <2>6. /\ SumFunctionOnSet(f2, P \ {p}) = SumFunctionOnSet(f, P) - f[p]
        /\ Cardinality(P \ {p}) = Cardinality(P) - 1
    BY <2>3, <2>4, SumDrops
  <2>7. QED
    BY <2>1, <2>2, <2>3, <2>4, <2>5, <2>6 DEF P
<1>6. QED
  BY <1>3, <1>4, <1>5

LEMMA StepCredited ==
    ASSUME ~Faults, TypeInv, SerialInv, SettledInv, CreditedExactly, [Next]_vars,
           NEW k \in Riders
    PROVE  /\ rider'[k].totalRides + Cardinality(CreditingFor(k)')
                  = Cardinality(CompletedBy(k)')
           /\ rider'[k].totalEarnings + Due(k)' = Earned(k)'
<1>1. /\ rider[k].totalRides + Cardinality(CreditingFor(k)) = Cardinality(CompletedBy(k))
      /\ rider[k].totalEarnings + Due(k) = Earned(k)
  BY DEF CreditedExactly, Due, Earned
<1>2. /\ rider[k].totalRides \in Int /\ rider[k].totalEarnings \in Int
      /\ Cardinality(CreditingFor(k)) \in Nat /\ Cardinality(CompletedBy(k)) \in Nat
      /\ Due(k) \in Int /\ Earned(k) \in Int /\ \A p \in Procs : h[p].earned \in Int
  BY BooksAreFinite, BooksAreNumbers DEF TypeInv, TypeOK, HandlerRecords
<1>3. ASSUME NEW p \in Procs, Completion(p)
      PROVE  /\ rider'[k].totalRides + Cardinality(CreditingFor(k)')
                    = Cardinality(CompletedBy(k)')
             /\ rider'[k].totalEarnings + Due(k)' = Earned(k)'
  <2>1. rider' = rider
    BY <1>3, CompletionEffect DEF Completion
  <2>2. h'[p].earned \in Int
    BY StepTypeInv DEF TypeInv, TypeOK, HandlerRecords
  <2>3. CASE h[p].rider = k
    BY <1>1, <1>2, <1>3, <2>1, <2>2, <2>3, CompletionBooks
  <2>4. CASE h[p].rider # k
    BY <1>1, <1>3, <2>1, <2>4, OtherBooks
  <2>5. QED
    BY <2>3, <2>4
<1>4. ASSUME NEW p \in Procs, UpdateCreditRider(p)
      PROVE  /\ rider'[k].totalRides + Cardinality(CreditingFor(k)')
                    = Cardinality(CompletedBy(k)')
             /\ rider'[k].totalEarnings + Due(k)' = Earned(k)'
  <2>1. CASE h[p].rider = k
    BY <1>1, <1>2, <1>4, <2>1, IncrementBooks
  <2>2. CASE h[p].rider # k
    BY <1>1, <1>4, <2>2, IncrementBooks
  <2>3. QED
    BY <2>1, <2>2
<1>5. ASSUME ~\E p \in Procs : Completion(p), ~\E p \in Procs : UpdateCreditRider(p)
      PROVE  /\ rider'[k].totalRides + Cardinality(CreditingFor(k)')
                    = Cardinality(CompletedBy(k)')
             /\ rider'[k].totalEarnings + Due(k)' = Earned(k)'
  <2>1. /\ rider'[k].totalRides = rider[k].totalRides
        /\ rider'[k].totalEarnings = rider[k].totalEarnings
    BY <1>5, TotalsWriters
  <2>2. CompletedBy(k)' = CompletedBy(k) /\ Earned(k)' = Earned(k)
    BY <1>5, FinishedRides, SameEarned
  <2>3. CreditingFor(k)' = CreditingFor(k) /\ \A p \in CreditingFor(k) : h'[p] = h[p]
    BY <1>5, CreditingHandlers DEF CreditingFor, At
  <2>4. Due(k)' = Due(k)
    BY <2>3, SameDue
  <2>5. QED
    BY <1>1, <2>1, <2>2, <2>3, <2>4
<1>6. QED
  BY <1>3, <1>4, <1>5

(* A rider's totals are those of the rides the tables call his and         *)
(* finished, short only of the handlers about to add to them: no increment *)
(* is lost or made twice, for any number of rides, riders and handlers.    *)
THEOREM RidersCreditedExactly ==
    ASSUME OnePerRide, ~Faults
    PROVE  Spec => []CreditedExactly
<1>1. Init => CreditedExactly
  <2> SUFFICES ASSUME Init, NEW k \in Riders
               PROVE  /\ rider[k].totalRides + Cardinality(CreditingFor(k))
                             = Cardinality(CompletedBy(k))
                      /\ rider[k].totalEarnings + Due(k) = Earned(k)
    BY DEF CreditedExactly, Due, Earned
  <2>1. CompletedBy(k) = {} /\ CreditingFor(k) = {}
    BY DEF Init, CompletedBy, CreditingFor, NoRide, Idle, At
  <2>2. rider[k].totalRides = 0 /\ rider[k].totalEarnings = 0
    BY DEF Init
  <2>3. Due(k) = 0 /\ Earned(k) = 0
    BY <2>1, SumOfNothing DEF Due, Earned
  <2>4. QED
    BY <2>1, <2>2, <2>3, FS_EmptySet
<1>2. TypeInv /\ SerialInv /\ SettledInv /\ CreditedExactly /\ [Next]_vars
          => CreditedExactly'
  BY StepCredited DEF CreditedExactly, Due, Earned
<1>3. TypeInv /\ SerialInv /\ SettledInv /\ [Next]_vars => SettledInv'
  BY StepSettledInv
<1>4. QED
  BY InitTypeInv, StepTypeInv, InitSettledInv, StepSerialInv, <1>1, <1>2, <1>3,
     PTL DEF Spec
=============================================================================
