--------------------------- MODULE ParcelsProofs ---------------------------
(***************************************************************************)
(* Proofs about Parcels for every finite set of parcels and every set of   *)
(* riders and concurrent requests.  No theorem assumes that requests take  *)
(* turns, except on the parcels of InTurn, where the model says they do.   *)
(***************************************************************************)
EXTENDS ParcelsProperties, Sums, TLAPS

LEMMA ChainFacts ==
    /\ DOMAIN PARCEL_TRANSITIONS = UnderWay
    /\ \A s \in UnderWay : /\ PARCEL_TRANSITIONS[s] \in Statuses
                           /\ PARCEL_TRANSITIONS[s] \in UnderWay \cup {"DELIVERED"}
  BY DEF PARCEL_TRANSITIONS, UnderWay, Ended, Statuses

LEMMA StatusNames ==
    {"NONE", "PENDING", "ACCEPTED", "DELIVERED", "CANCELLED"} \subseteq Statuses
  BY DEF Statuses, UnderWay, Ended

LEMMA EarningsNat ==
    ASSUME NEW r \in Parcels, NEW c \in Percentages
    PROVE  Earnings(r, c) \in Nat
<1>1. Fee[r] \in Nat /\ (100 - c) \in Nat
  BY ParcelsAssumption
<1>2. QED
  BY <1>1 DEF Earnings

(* An average of scores is a number of stars, in tenths.                   *)
LEMMA AverageBounded ==
    ASSUME rating \in [Parcels -> RatingRows], NEW R \in SUBSET Parcels
    PROVE  Average(R) \in 0 .. 50
<1> DEFINE f == [r \in Parcels |-> rating[r].score]
           n == Cardinality(R)
           sum == SumFunctionOnSet(f, R)
<1>1. IsFiniteSet(R) /\ n \in Nat
  BY FS_Subset, FS_CardinalityType, ParcelsAssumption
<1>2. \A x \in R : f[x] \in 0 .. 5
  BY DEF RatingRows
<1>3. sum \in Int /\ 0 <= sum /\ sum <= 5 * n
  <2> HIDE DEF f
  <2>1. QED
    BY <1>1, <1>2, SumBounded
<1>4. Average(R) = IF n = 0 THEN 0 ELSE (20 * sum + n) \div (2 * n)
  BY DEF Average
<1> HIDE DEF n, sum
<1>5. ASSUME n # 0
      PROVE  (20 * sum + n) \div (2 * n) \in 0 .. 50
  <2> DEFINE a == 20 * sum + n
             d == 2 * n
             q == a \div d
             m == a % d
  <2>1. a \in Int /\ d \in Int /\ d > 0 /\ 0 <= a /\ a <= 101 * n
    BY <1>1, <1>3, <1>5
  <2>2. q \in Int /\ m \in Int /\ a = d * q + m /\ 0 <= m /\ m < d
    <3> HIDE DEF a, d
    <3>1. QED
      BY <2>1
  <2> HIDE DEF a, q, m
  <2>3. ASSUME q >= 51
        PROVE  FALSE
    <3>1. d * q >= d * 51
      <4> HIDE DEF d
      <4>1. QED
        BY <2>1, <2>2, <2>3
    <3>2. d * q >= 102 * n /\ d * q \in Int
      <4>1. d * 51 = 102 * n
        BY <1>1
      <4>2. d * q \in Int
        BY <2>1, <2>2
      <4>3. QED
        BY <3>1, <4>1, <4>2
    <3> HIDE DEF d
    <3>3. QED
      BY <1>1, <1>5, <2>1, <2>2, <3>2
  <2>4. ASSUME q <= -1
        PROVE  FALSE
    <3> HIDE DEF d
    <3>1. d * q <= -d /\ d * q \in Int
      BY <2>1, <2>2, <2>4
    <3>2. QED
      BY <2>1, <2>2, <3>1
  <2>5. 0 <= q /\ q <= 50
    <3> HIDE DEF d
    <3>1. QED
      BY <2>2, <2>3, <2>4
  <2>6. q \in 0 .. 50
    BY <2>2, <2>5
  <2>7. QED
    BY <2>6 DEF q, a
<1>6. QED
  BY <1>4, <1>5

-----------------------------------------------------------------------------
(* Type correctness, with what a busy handler always carries.              *)

AcceptPlaces == {"accept.findParcel", "accept.update"}
UpdatePlaces == {"update.findPayment", "update.settleCash", "update.update",
                 "update.creditRider"}
RatingPlaces == {"rate.findMany", "rate.updateRider"}

HandlersOK ==
    \A p \in Procs :
        /\ h[p].pc # "idle" => h[p].parcel \in Parcels
        /\ h[p].pc \in AcceptPlaces \cup UpdatePlaces \cup RatingPlaces \cup {"rate.create"}
               => h[p].rider \in Riders
        /\ h[p].pc = "rate.create" => h[p].score # 0

TypeInv == TypeOK /\ HandlersOK

LEMMA InitTypeInv == Init => TypeInv
  BY ParcelsAssumption
     DEF Init, TypeInv, TypeOK, HandlersOK, ParcelRows, NoParcel, RiderRows, Idle,
         HandlerRecords, Places, Statuses, Row!RowInit, Row!PayRows, Row!NoPay,
         Row!PayStatuses, Row!PayMethods, RatingRows, NoRating, AcceptPlaces,
         UpdatePlaces, RatingPlaces

(* Rows and handler records keep their types when some fields are set.     *)
LEMMA ParcelRowUpdates ==
    ASSUME NEW x \in ParcelRows, NEW s \in Statuses
    PROVE  /\ [x EXCEPT !.status = s] \in ParcelRows
           /\ [x EXCEPT !.proof = TRUE] \in ParcelRows
           /\ \A k \in Riders : [x EXCEPT !.status = s, !.riderId = k] \in ParcelRows
           /\ \A n \in Nat : [x EXCEPT !.status = s, !.riderEarnings = n] \in ParcelRows
           /\ \A m \in {"MPESA", "CASH"} :
                  [x EXCEPT !.status = s, !.method = m] \in ParcelRows
  BY DEF ParcelRows

LEMMA HandlerUpdates ==
    ASSUME NEW x \in HandlerRecords, NEW pc \in Places
    PROVE  /\ \A s \in Row!PayStatuses : [x EXCEPT !.seen = s, !.pc = pc] \in HandlerRecords
           /\ \A n \in Nat : [x EXCEPT !.pc = pc, !.earned = n] \in HandlerRecords
           /\ \A n \in 0 .. 50 : [x EXCEPT !.pc = pc, !.average = n] \in HandlerRecords
  BY DEF HandlerRecords

LEMMA IdleType == Idle \in HandlerRecords
  BY DEF Idle, HandlerRecords, Places, Statuses, Row!PayStatuses

LEMMA RequestType ==
    ASSUME NEW pc \in Places, NEW r \in Parcels, NEW k \in Riders \cup {NoOne},
           NEW to \in Statuses, NEW seen \in Statuses
    PROVE  Request(pc, r, k, to, seen) \in HandlerRecords
<1> DEFINE a == Idle
<1>1. a \in HandlerRecords
  BY IdleType
<1> HIDE DEF a
<1>2. [a EXCEPT !.pc = pc, !.parcel = r, !.rider = k, !.to = to, !.seen = seen]
          \in HandlerRecords
  BY <1>1 DEF HandlerRecords
<1>3. QED
  BY <1>2 DEF Request, a

LEMMA RequestFields ==
    ASSUME NEW pc, NEW r, NEW k, NEW to, NEW seen
    PROVE  /\ Request(pc, r, k, to, seen).pc = pc
           /\ Request(pc, r, k, to, seen).parcel = r
           /\ Request(pc, r, k, to, seen).rider = k
           /\ Request(pc, r, k, to, seen).to = to
           /\ Request(pc, r, k, to, seen).seen = seen
  BY DEF Request, Idle

(* The two ways a handler's record changes between its database calls.     *)
LEMMA ReturnKeepsHandlers ==
    ASSUME TypeInv, NEW p \in Procs, Return(p)
    PROVE  h' \in [Procs -> HandlerRecords] /\ HandlersOK'
<1>1. Idle \in HandlerRecords
  BY IdleType
<1>2. QED
  BY <1>1 DEF TypeInv, TypeOK, HandlersOK, Return, Idle, AcceptPlaces, UpdatePlaces,
              RatingPlaces

LEMMA GotoKeepsHandlers ==
    ASSUME TypeInv, NEW p \in Procs, NEW pc \in Places, Goto(p, pc),
           h[p].pc # "idle", pc # "rate.create",
           pc \in AcceptPlaces \cup UpdatePlaces \cup RatingPlaces
               => h[p].rider \in Riders
    PROVE  h' \in [Procs -> HandlerRecords] /\ HandlersOK'
<1>1. h' \in [Procs -> HandlerRecords]
  BY DEF TypeInv, TypeOK, Goto, HandlerRecords
<1>2. HandlersOK'
  BY DEF TypeInv, TypeOK, HandlersOK, Goto, HandlerRecords
<1>3. QED
  BY <1>1, <1>2

(* ... or is replaced by another one altogether.                           *)
LEMMA NewRecordKeepsHandlers ==
    ASSUME TypeInv, NEW p \in Procs, NEW x \in HandlerRecords, h' = [h EXCEPT ![p] = x],
           x.pc # "idle" => x.parcel \in Parcels,
           x.pc \in AcceptPlaces \cup UpdatePlaces \cup RatingPlaces \cup {"rate.create"}
               => x.rider \in Riders,
           x.pc = "rate.create" => x.score # 0
    PROVE  h' \in [Procs -> HandlerRecords] /\ HandlersOK'
  BY DEF TypeInv, TypeOK, HandlersOK

LEMMA RequestKeepsHandlers ==
    ASSUME TypeInv, NEW p \in Procs, NEW pc \in Places, NEW r \in Parcels,
           NEW k \in Riders \cup {NoOne}, NEW to \in Statuses, NEW seen \in Statuses,
           h' = [h EXCEPT ![p] = Request(pc, r, k, to, seen)],
           pc \notin RatingPlaces \cup {"rate.create"},
           pc \in AcceptPlaces \cup UpdatePlaces => k \in Riders
    PROVE  h' \in [Procs -> HandlerRecords] /\ HandlersOK'
<1> DEFINE x == Request(pc, r, k, to, seen)
<1>1. x \in HandlerRecords /\ x.parcel = r /\ x.rider = k /\ x.pc = pc
  BY RequestType, RequestFields
<1> HIDE DEF x
<1>2. h' = [h EXCEPT ![p] = x]
  BY DEF x
<1>3. QED
  BY <1>1, <1>2, NewRecordKeepsHandlers

LEMMA HandlerStepTypeInv ==
    ASSUME TypeInv, NEW p \in Procs, HandlerStep(p)
    PROVE  TypeInv'
<1> USE ParcelsAssumption DEF TypeInv, TypeOK, At, AcceptPlaces, UpdatePlaces, RatingPlaces
<1> DEFINE r == h[p].parcel
<1>0. /\ h[p].pc # "idle" => r \in Parcels
      /\ h[p].pc \in AcceptPlaces \cup UpdatePlaces \cup RatingPlaces \cup {"rate.create"}
             => h[p].rider \in Riders
      /\ h[p].pc = "rate.create" => h[p].score # 0
  BY DEF HandlersOK
<1>1. CASE AcceptFindParcel(p)
  BY <1>0, <1>1, ReturnKeepsHandlers, GotoKeepsHandlers DEF AcceptFindParcel, Places
<1>2. CASE AcceptUpdate(p)
  <2>1. parcel' \in [Parcels -> ParcelRows]
    BY <1>0, <1>2, StatusNames, ParcelRowUpdates DEF AcceptUpdate
  <2>2. h' \in [Procs -> HandlerRecords] /\ HandlersOK'
    BY <1>2, GotoKeepsHandlers DEF AcceptUpdate, Places
  <2>3. QED
    BY <1>2, <2>1, <2>2 DEF AcceptUpdate
<1>3. CASE AcceptCreateConversation(p)
  BY <1>3, ReturnKeepsHandlers DEF AcceptCreateConversation
<1>4. CASE UpdateFindMpesaPayment(p)
  BY <1>0, <1>4, ReturnKeepsHandlers, GotoKeepsHandlers DEF UpdateFindMpesaPayment, Places
<1>5. CASE UpdateFindCashPayment(p)
  <2> DEFINE row == pay[r].st
             pc == IF row = "COMPLETED" THEN "update.update" ELSE "update.settleCash"
             x == [h[p] EXCEPT !.seen = row, !.pc = pc]
  <2>1. r \in Parcels /\ h[p].rider \in Riders
    BY <1>0, <1>5 DEF UpdateFindCashPayment
  <2>2. row \in Row!PayStatuses /\ pc \in Places /\ pc # "rate.create"
    BY <2>1 DEF Row!PayRows, Places
  <2>3. h' = [h EXCEPT ![p] = x]
    BY <1>5 DEF UpdateFindCashPayment
  <2>4. x.parcel = r /\ x.rider = h[p].rider /\ x.pc = pc
    BY DEF HandlerRecords
  <2>5. x \in HandlerRecords
    BY <2>2, HandlerUpdates
  <2> HIDE DEF x
  <2>6. h' \in [Procs -> HandlerRecords] /\ HandlersOK'
    BY <2>1, <2>2, <2>3, <2>4, <2>5, NewRecordKeepsHandlers
  <2>7. QED
    BY <1>5, <2>6 DEF UpdateFindCashPayment
<1>6. CASE UpdateSettleCash(p)
  <2>1. pay' \in [Parcels -> Row!PayRows]
    BY <1>6 DEF UpdateSettleCash, Row!CollectCash, Row!PayRows, Row!PayStatuses,
                Row!PayMethods
  <2>2. h' \in [Procs -> HandlerRecords] /\ HandlersOK'
    BY <1>0, <1>6, ReturnKeepsHandlers, GotoKeepsHandlers DEF UpdateSettleCash, Places
  <2>3. QED
    BY <1>6, <2>1, <2>2 DEF UpdateSettleCash
<1>7. CASE UpdateParcel(p)
  <2> DEFINE earned == Earnings(r, pct)
  <2>1. r \in Parcels /\ h[p].rider \in Riders /\ h[p].to \in Statuses
    BY <1>0, <1>7 DEF UpdateParcel, HandlerRecords
  <2>2. earned \in Nat
    BY <2>1, EarningsNat
  <2>3. CASE h[p].to = "DELIVERED"
    <3> DEFINE x == [parcel[r] EXCEPT !.status = h[p].to, !.riderEarnings = earned]
               y == [h[p] EXCEPT !.pc = "update.creditRider", !.earned = earned]
    <3>1. parcel' = [parcel EXCEPT ![r] = x] /\ h' = [h EXCEPT ![p] = y]
      BY <1>7, <2>3 DEF UpdateParcel
    <3>2. x \in ParcelRows
      BY <2>1, <2>2, ParcelRowUpdates
    <3>3. y \in HandlerRecords
      BY <2>2, HandlerUpdates DEF Places
    <3>4. y.parcel = r /\ y.rider = h[p].rider /\ y.pc = "update.creditRider"
      BY DEF HandlerRecords
    <3> HIDE DEF x, y
    <3>5. parcel' \in [Parcels -> ParcelRows]
      BY <3>1, <3>2
    <3>6. h' \in [Procs -> HandlerRecords] /\ HandlersOK'
      BY <2>1, <3>1, <3>3, <3>4, NewRecordKeepsHandlers
    <3>7. QED
      BY <1>7, <3>5, <3>6 DEF UpdateParcel
  <2>4. CASE h[p].to # "DELIVERED"
    <3> DEFINE x == [parcel[r] EXCEPT !.status = h[p].to]
    <3>1. parcel' = [parcel EXCEPT ![r] = x]
      BY <1>7, <2>4 DEF UpdateParcel
    <3>2. x \in ParcelRows
      BY <2>1, ParcelRowUpdates
    <3>3. parcel' \in [Parcels -> ParcelRows]
      BY <3>1, <3>2
    <3>4. QED
      BY <1>7, <2>4, <3>3, ReturnKeepsHandlers DEF UpdateParcel
  <2>5. QED
    BY <2>3, <2>4
<1>8. CASE UpdateCreditRider(p)
  <2>1. h[p].rider \in Riders /\ h[p].earned \in Nat
    BY <1>0, <1>8 DEF UpdateCreditRider, HandlerRecords
  <2>2. rider' \in [Riders -> RiderRows]
    BY <1>8, <2>1 DEF UpdateCreditRider, RiderRows
  <2>3. QED
    BY <1>8, <2>1, <2>2, GotoKeepsHandlers DEF UpdateCreditRider, Places
<1>9. CASE CancelUpdate(p)
  <2>1. parcel' \in [Parcels -> ParcelRows]
    BY <1>0, <1>9, StatusNames, ParcelRowUpdates DEF CancelUpdate
  <2>2. h' \in [Procs -> HandlerRecords] /\ HandlersOK'
    BY <1>9, ReturnKeepsHandlers, GotoKeepsHandlers DEF CancelUpdate, Places
  <2>3. QED
    BY <1>9, <2>1, <2>2 DEF CancelUpdate
<1>10. CASE FindConversation(p)
  BY <1>10, ReturnKeepsHandlers, GotoKeepsHandlers DEF FindConversation, Places
<1>11. CASE CloseConversation(p)
  BY <1>11, ReturnKeepsHandlers DEF CloseConversation
<1>12. CASE ProofUpdate(p)
  <2>1. parcel' \in [Parcels -> ParcelRows]
    BY <1>0, <1>12, StatusNames, ParcelRowUpdates DEF ProofUpdate
  <2>2. QED
    BY <1>12, <2>1, ReturnKeepsHandlers DEF ProofUpdate
<1>13. CASE RateCreate(p)
  <2>1. rating' \in [Parcels -> RatingRows]
    BY <1>13 DEF RateCreate, RatingRows, HandlerRecords
  <2>2. h' \in [Procs -> HandlerRecords] /\ HandlersOK'
    BY <1>0, <1>13, ReturnKeepsHandlers, GotoKeepsHandlers DEF RateCreate, Places
  <2>3. QED
    BY <1>13, <2>1, <2>2 DEF RateCreate
<1>14. CASE RateFindMany(p)
  <2> DEFINE n == Average(RatingsOf(h[p].rider))
             x == [h[p] EXCEPT !.pc = "rate.updateRider", !.average = n]
  <2>1. n \in 0 .. 50
    <3>1. RatingsOf(h[p].rider) \in SUBSET Parcels
      BY DEF RatingsOf
    <3>2. QED
      BY <3>1, AverageBounded
  <2>2. h' = [h EXCEPT ![p] = x]
    BY <1>14 DEF RateFindMany
  <2>3. x \in HandlerRecords
    <3> HIDE DEF n
    <3>1. QED
      BY <2>1, HandlerUpdates DEF Places
  <2>4. x.parcel = r /\ x.rider = h[p].rider /\ x.pc = "rate.updateRider"
    BY DEF HandlerRecords
  <2>5. r \in Parcels /\ h[p].rider \in Riders
    BY <1>0, <1>14 DEF RateFindMany
  <2> HIDE DEF x
  <2>6. h' \in [Procs -> HandlerRecords] /\ HandlersOK'
    BY <2>2, <2>3, <2>4, <2>5, NewRecordKeepsHandlers
  <2>7. QED
    BY <1>14, <2>6 DEF RateFindMany
<1>15. CASE RateUpdateRider(p)
  <2>1. rider' \in [Riders -> RiderRows]
    <3>1. h[p].average \in 0 .. 50
      BY DEF HandlerRecords
    <3>2. \A k \in Riders : [rider[k] EXCEPT !.ratingAverage = h[p].average] \in RiderRows
      BY <3>1 DEF RiderRows
    <3>3. rider' = [rider EXCEPT ![h[p].rider] =
                       [rider[h[p].rider] EXCEPT !.ratingAverage = h[p].average]]
      BY <1>15 DEF RateUpdateRider
    <3>4. QED
      BY <3>2, <3>3
  <2>2. QED
    BY <1>15, <2>1, ReturnKeepsHandlers DEF RateUpdateRider
<1>16. QED
  BY <1>1, <1>2, <1>3, <1>4, <1>5, <1>6, <1>7, <1>8, <1>9, <1>10, <1>11, <1>12,
     <1>13, <1>14, <1>15
     DEF HandlerStep

LEMMA StepTypeInv == TypeInv /\ [Next]_vars => TypeInv'
<1> SUFFICES ASSUME TypeInv, [Next]_vars
             PROVE  TypeInv'
  OBVIOUS
<1> USE ParcelsAssumption DEF TypeInv, TypeOK
<1>1. ASSUME NEW p \in Procs, NewRequest(p)
      PROVE  TypeInv'
  <2> USE DEF AcceptPlaces, UpdatePlaces, RatingPlaces
  <2>1. ASSUME NEW r \in Parcels, NEW k \in Riders, AcceptFindRider(p, k, r)
        PROVE  TypeInv'
    <3>1. h' \in [Procs -> HandlerRecords] /\ HandlersOK'
      <4>1. h' = [h EXCEPT ![p] = Request("accept.findParcel", r, k, "NONE", "NONE")]
        BY <2>1 DEF AcceptFindRider
      <4>2. QED
        BY <4>1, StatusNames, RequestKeepsHandlers DEF Places
    <3>2. QED
      BY <2>1, <3>1 DEF AcceptFindRider
  <2>2. ASSUME NEW r \in Parcels, NEW k \in Riders, UpdateFindParcel(p, k, r)
        PROVE  TypeInv'
    <3> DEFINE to == PARCEL_TRANSITIONS[parcel[r].status]
               pc == IF to = "DELIVERED" THEN "update.findPayment" ELSE "update.update"
    <3>1. to \in Statuses /\ parcel[r].status \in Statuses /\ pc \in Places
      BY <2>2, ChainFacts DEF UpdateFindParcel, ParcelRows, Places
    <3>2. h' = [h EXCEPT ![p] = Request(pc, r, k, to, parcel[r].status)]
      BY <2>2 DEF UpdateFindParcel
    <3>3. pc \notin RatingPlaces \cup {"rate.create"}
      OBVIOUS
    <3> HIDE DEF pc, to
    <3>4. h' \in [Procs -> HandlerRecords] /\ HandlersOK'
      BY <3>1, <3>2, <3>3, RequestKeepsHandlers
    <3>5. QED
      BY <2>2, <3>4 DEF UpdateFindParcel
  <2>3. ASSUME NEW r \in Parcels, CancelFindParcel(p, r)
        PROVE  TypeInv'
    <3>1. parcel[r].status \in Statuses
      BY DEF ParcelRows
    <3>2. h' = [h EXCEPT ![p] = Request("cancel.update", r, NoOne, "CANCELLED",
                                        parcel[r].status)]
      BY <2>3 DEF CancelFindParcel
    <3>3. h' \in [Procs -> HandlerRecords] /\ HandlersOK'
      BY <3>1, <3>2, StatusNames, RequestKeepsHandlers DEF Places
    <3>4. QED
      BY <2>3, <3>3 DEF CancelFindParcel
  <2>4. ASSUME NEW r \in Parcels, ProofFindParcel(p, r)
        PROVE  TypeInv'
    <3>1. h' = [h EXCEPT ![p] = Request("proof.update", r, NoOne, "NONE", "NONE")]
      BY <2>4 DEF ProofFindParcel
    <3>2. h' \in [Procs -> HandlerRecords] /\ HandlersOK'
      BY <3>1, StatusNames, RequestKeepsHandlers DEF Places
    <3>3. QED
      BY <2>4, <3>2 DEF ProofFindParcel
  <2>5. ASSUME NEW r \in Parcels, NEW s \in Scores[r], RateFindParcel(p, r, s)
        PROVE  TypeInv'
    <3> DEFINE k == parcel[r].riderId
               x == [Request("rate.create", r, k, "NONE", "NONE") EXCEPT !.score = s]
    <3>1. k \in Riders /\ s \in 1 .. 5
      BY <2>5 DEF RateFindParcel, ParcelRows
    <3>2. h' = [h EXCEPT ![p] = x]
      BY <2>5 DEF RateFindParcel
    <3>3. x \in HandlerRecords /\ x.parcel = r /\ x.rider = k /\ x.score # 0
      <4> DEFINE q == Request("rate.create", r, k, "NONE", "NONE")
      <4>1. q \in HandlerRecords /\ q.parcel = r /\ q.rider = k
        <5>1. "rate.create" \in Places /\ "NONE" \in Statuses /\ k \in Riders \cup {NoOne}
          BY <3>1, StatusNames DEF Places
        <5> HIDE DEF k
        <5>2. QED
          BY <5>1, RequestType, RequestFields
      <4> HIDE DEF q
      <4>2. [q EXCEPT !.score = s] \in HandlerRecords
        BY <3>1, <4>1 DEF HandlerRecords
      <4>3. QED
        BY <3>1, <4>1, <4>2 DEF HandlerRecords, q
    <3> HIDE DEF x, k
    <3>4. QED
      BY <2>5, <3>1, <3>2, <3>3, NewRecordKeepsHandlers DEF RateFindParcel
  <2>6. QED
    BY <1>1, <2>1, <2>2, <2>3, <2>4, <2>5 DEF NewRequest
<1>2. ASSUME NEW p \in Procs, HandlerFails(p)
      PROVE  TypeInv'
  BY <1>2, ReturnKeepsHandlers DEF HandlerFails
<1>3. ASSUME Environment
      PROVE  TypeInv'
  <2>1. ASSUME NEW r \in Parcels, NEW m \in Methods[r], CreateParcel(r, m)
        PROVE  TypeInv'
    <3>1. m \in {"MPESA", "CASH"}
      OBVIOUS
    <3>2. [parcel[r] EXCEPT !.status = "PENDING", !.method = m] \in ParcelRows
      BY <3>1, StatusNames, ParcelRowUpdates
    <3>3. QED
      BY <2>1, <3>2 DEF CreateParcel, HandlersOK
  <2>2. ASSUME NEW k \in Riders, NEW b \in BOOLEAN, SetVerified(k, b)
        PROVE  TypeInv'
    BY <2>2 DEF SetVerified, RiderRows, HandlersOK
  <2>3. ASSUME NEW c \in Percentages, SetCommission(c)
        PROVE  TypeInv'
    BY <2>3 DEF SetCommission, HandlersOK
  <2>4. ASSUME NEW r \in Parcels, PaymentMoves(r)
        PROVE  TypeInv'
    <3>1. pay' \in [Parcels -> Row!PayRows]
      BY <2>4 DEF PaymentMoves, Row!PaymentStep, Row!CreateRow, Row!SettleRow,
                  Row!FailRow, Row!ResendRow, Row!PayRows, Row!PayStatuses,
                  Row!PayMethods
    <3>2. QED
      BY <2>4, <3>1 DEF PaymentMoves, HandlersOK
  <2>5. QED
    BY <1>3, <2>1, <2>2, <2>3, <2>4 DEF Environment
<1>4. CASE UNCHANGED vars
  BY <1>4 DEF vars, HandlersOK
<1>5. QED
  BY HandlerStepTypeInv, <1>1, <1>2, <1>3, <1>4 DEF Next

(* Every table and every handler keeps its type, whatever overlaps; the    *)
(* stars a rider is shown never leave their scale, however many ratings    *)
(* they are the average of.                                                *)
THEOREM TypeCorrect == Spec => []TypeOK
<1>1. TypeInv => TypeOK
  BY DEF TypeInv
<1>2. QED
  BY InitTypeInv, StepTypeInv, <1>1, PTL DEF Spec

-----------------------------------------------------------------------------
(* Who writes what.                                                        *)

LEMMA ParcelWriters ==
    ASSUME [Next]_vars
    PROVE  \/ parcel' = parcel
           \/ \E p \in Procs : AcceptUpdate(p) \/ UpdateParcel(p) \/ CancelUpdate(p)
                                   \/ ProofUpdate(p)
           \/ \E q \in Parcels : \E m \in Methods[q] : CreateParcel(q, m)
<1>1. ASSUME NEW p \in Procs, HandlerStep(p)
      PROVE  parcel' = parcel \/ AcceptUpdate(p) \/ UpdateParcel(p) \/ CancelUpdate(p)
                 \/ ProofUpdate(p)
  BY <1>1
     DEF HandlerStep, AcceptFindParcel, AcceptCreateConversation,
         UpdateFindMpesaPayment, UpdateFindCashPayment, UpdateSettleCash,
         UpdateCreditRider, FindConversation, CloseConversation, RateCreate,
         RateFindMany, RateUpdateRider
<1>2. ASSUME NEW p \in Procs, NewRequest(p) \/ HandlerFails(p)
      PROVE  parcel' = parcel
  BY <1>2
     DEF NewRequest, AcceptFindRider, UpdateFindParcel, CancelFindParcel,
         ProofFindParcel, RateFindParcel, HandlerFails
<1>3. ASSUME Environment
      PROVE  \/ parcel' = parcel
             \/ \E q \in Parcels : \E m \in Methods[q] : CreateParcel(q, m)
  BY <1>3 DEF Environment, SetVerified, SetCommission, PaymentMoves
<1>4. CASE UNCHANGED vars
  BY <1>4 DEF vars
<1>5. QED
  BY <1>1, <1>2, <1>3, <1>4 DEF Next

LEMMA OtherWriters ==
    ASSUME [Next]_vars
    PROVE  /\ \/ conv' = conv
              \/ \E p \in Procs : AcceptCreateConversation(p) \/ CloseConversation(p)
           /\ rating' = rating \/ \E p \in Procs : RateCreate(p)
           /\ \/ pay' = pay
              \/ \E p \in Procs : UpdateSettleCash(p)
              \/ \E r \in Parcels : PaymentMoves(r)
<1>1. ASSUME NEW p \in Procs, HandlerStep(p)
      PROVE  /\ conv' = conv \/ AcceptCreateConversation(p) \/ CloseConversation(p)
             /\ rating' = rating \/ RateCreate(p)
             /\ pay' = pay \/ UpdateSettleCash(p)
  BY <1>1
     DEF HandlerStep, AcceptFindParcel, AcceptUpdate, AcceptCreateConversation,
         UpdateFindMpesaPayment, UpdateFindCashPayment, UpdateSettleCash,
         UpdateParcel, UpdateCreditRider, CancelUpdate, FindConversation,
         CloseConversation, ProofUpdate, RateCreate, RateFindMany, RateUpdateRider
<1>2. ASSUME NEW p \in Procs, NewRequest(p) \/ HandlerFails(p)
      PROVE  UNCHANGED <<conv, rating, pay>>
  BY <1>2
     DEF NewRequest, AcceptFindRider, UpdateFindParcel, CancelFindParcel,
         ProofFindParcel, RateFindParcel, HandlerFails
<1>3. ASSUME Environment
      PROVE  /\ UNCHANGED <<conv, rating>>
             /\ pay' = pay \/ \E r \in Parcels : PaymentMoves(r)
  BY <1>3 DEF Environment, CreateParcel, SetVerified, SetCommission, PaymentMoves
<1>4. CASE UNCHANGED vars
  BY <1>4 DEF vars
<1>5. QED
  BY <1>1, <1>2, <1>3, <1>4 DEF Next

(* What the writers of table parcels do, field by field.                   *)
LEMMA AcceptUpdateEffect ==
    ASSUME TypeInv, NEW p \in Procs, AcceptUpdate(p)
    PROVE  /\ h[p].parcel \in Parcels /\ h[p].rider \in Riders
           /\ \A q \in Parcels :
                  /\ parcel'[q].status =
                         IF q = h[p].parcel THEN "ACCEPTED" ELSE parcel[q].status
                  /\ parcel'[q].riderId =
                         IF q = h[p].parcel THEN h[p].rider ELSE parcel[q].riderId
<1>1. h[p].parcel \in Parcels /\ h[p].rider \in Riders
  BY DEF TypeInv, HandlersOK, AcceptUpdate, At, AcceptPlaces
<1>2. parcel' = [parcel EXCEPT ![h[p].parcel] =
                    [parcel[h[p].parcel] EXCEPT !.status = "ACCEPTED",
                                                !.riderId = h[p].rider]]
  BY DEF AcceptUpdate
<1>3. QED
  BY <1>1, <1>2 DEF TypeInv, TypeOK, ParcelRows

LEMMA UpdateParcelEffect ==
    ASSUME TypeInv, NEW p \in Procs, UpdateParcel(p)
    PROVE  /\ h[p].parcel \in Parcels /\ h[p].rider \in Riders
           /\ \A q \in Parcels :
                  /\ parcel'[q].status =
                         IF q = h[p].parcel THEN h[p].to ELSE parcel[q].status
                  /\ parcel'[q].riderId = parcel[q].riderId
<1> DEFINE r == h[p].parcel
           x == [parcel[r] EXCEPT !.status = h[p].to,
                                  !.riderEarnings = Earnings(r, pct)]
           y == [parcel[r] EXCEPT !.status = h[p].to]
<1>1. r \in Parcels /\ h[p].rider \in Riders
  BY DEF TypeInv, HandlersOK, UpdateParcel, At, UpdatePlaces
<1>2. parcel' = [parcel EXCEPT ![r] = x] \/ parcel' = [parcel EXCEPT ![r] = y]
  BY DEF UpdateParcel
<1>3. /\ x.status = h[p].to /\ x.riderId = parcel[r].riderId
      /\ y.status = h[p].to /\ y.riderId = parcel[r].riderId
  BY <1>1 DEF TypeInv, TypeOK, ParcelRows
<1> HIDE DEF x, y
<1>4. QED
  BY <1>1, <1>2, <1>3 DEF TypeInv, TypeOK

LEMMA CancelUpdateEffect ==
    ASSUME TypeInv, NEW p \in Procs, CancelUpdate(p)
    PROVE  /\ h[p].parcel \in Parcels
           /\ \A q \in Parcels :
                  /\ parcel'[q].status =
                         IF q = h[p].parcel THEN "CANCELLED" ELSE parcel[q].status
                  /\ parcel'[q].riderId = parcel[q].riderId
  BY DEF TypeInv, TypeOK, HandlersOK, CancelUpdate, At, ParcelRows

LEMMA ProofUpdateEffect ==
    ASSUME TypeInv, NEW p \in Procs, ProofUpdate(p)
    PROVE  \A q \in Parcels : /\ parcel'[q].status = parcel[q].status
                              /\ parcel'[q].riderId = parcel[q].riderId
  BY DEF TypeInv, TypeOK, ProofUpdate, ParcelRows

LEMMA CreateParcelEffect ==
    ASSUME TypeInv, NEW r \in Parcels, NEW m, CreateParcel(r, m)
    PROVE  \A q \in Parcels :
               /\ parcel'[q].status = IF q = r THEN "PENDING" ELSE parcel[q].status
               /\ parcel'[q].riderId = parcel[q].riderId
<1>1. parcel' = [parcel EXCEPT ![r] =
                    [parcel[r] EXCEPT !.status = "PENDING", !.method = m]]
  BY DEF CreateParcel
<1>2. QED
  BY <1>1 DEF TypeInv, TypeOK, ParcelRows

(* No handler takes the rider off a parcel.                                *)
LEMMA RiderStays ==
    ASSUME TypeInv, [Next]_vars, NEW r \in Parcels, parcel[r].riderId # NoOne
    PROVE  parcel'[r].riderId # NoOne
  BY ParcelWriters, AcceptUpdateEffect, UpdateParcelEffect, CancelUpdateEffect,
     ProofUpdateEffect, CreateParcelEffect, ParcelsAssumption

(* A COMPLETED payment is final: what the gate saw of it is still true     *)
(* when the parcel is written.                                             *)
LEMMA PaidStays ==
    ASSUME ~Regress, TypeInv, [Next]_vars, NEW r \in Parcels, pay[r].st = "COMPLETED"
    PROVE  pay'[r].st = "COMPLETED"
<1>1. ASSUME NEW p \in Procs, UpdateSettleCash(p)
      PROVE  pay'[r].st = "COMPLETED"
  BY <1>1 DEF UpdateSettleCash, Row!CollectCash, TypeInv, TypeOK
<1>2. ASSUME NEW q \in Parcels, PaymentMoves(q)
      PROVE  pay'[r].st = "COMPLETED"
  BY <1>2
     DEF PaymentMoves, Row!PaymentStep, Row!CreateRow, Row!SettleRow,
         Row!FailRow, Row!ResendRow, Row!Open, Row!Paid, TypeInv, TypeOK
<1>3. QED
  BY OtherWriters, <1>1, <1>2

-----------------------------------------------------------------------------
(* What a step does to the record of one handler: nothing, ending it, one  *)
(* of its own steps (which keep the request's parameters) or a request.    *)

Kept(p) ==
    /\ h'[p].parcel = h[p].parcel /\ h'[p].rider = h[p].rider
    /\ h'[p].to = h[p].to

LEMMA OwnMove ==
    ASSUME TypeInv, NEW p \in Procs, HandlerStep(p)
    PROVE  /\ \A q \in Procs \ {p} : h'[q] = h[q]
           /\ h'[p] = Idle \/ Kept(p)
<1> USE DEF TypeInv, TypeOK
<1>1. \A q \in Procs \ {p} : h'[q] = h[q]
  BY DEF HandlerStep, AcceptFindParcel, AcceptUpdate, AcceptCreateConversation,
         UpdateFindMpesaPayment, UpdateFindCashPayment, UpdateSettleCash,
         UpdateParcel, UpdateCreditRider, CancelUpdate, FindConversation,
         CloseConversation, ProofUpdate, RateCreate, RateFindMany,
         RateUpdateRider, Goto, Return
<1>2. CASE Return(p)
  BY <1>1, <1>2 DEF Return
<1>3. CASE \E pc \in Places : Goto(p, pc)
  BY <1>1, <1>3 DEF Goto, HandlerRecords, Kept
<1>4. CASE UpdateFindCashPayment(p)
  <2> DEFINE x == [h[p] EXCEPT !.seen = pay[h[p].parcel].st,
                               !.pc = IF pay[h[p].parcel].st = "COMPLETED"
                                      THEN "update.update"
                                      ELSE "update.settleCash"]
  <2>1. h'[p] = x
    BY <1>4 DEF UpdateFindCashPayment
  <2>2. x.parcel = h[p].parcel /\ x.rider = h[p].rider /\ x.to = h[p].to
    BY DEF HandlerRecords
  <2>3. QED
    BY <1>1, <2>1, <2>2 DEF Kept
<1>5. CASE UpdateParcel(p) /\ ~Return(p)
  <2> DEFINE x == [h[p] EXCEPT !.pc = "update.creditRider",
                               !.earned = Earnings(h[p].parcel, pct)]
  <2>1. h'[p] = x
    BY <1>5 DEF UpdateParcel
  <2>2. x.parcel = h[p].parcel /\ x.rider = h[p].rider /\ x.to = h[p].to
    BY DEF HandlerRecords
  <2>3. QED
    BY <1>1, <2>1, <2>2 DEF Kept
<1>6. CASE RateFindMany(p)
  <2> DEFINE x == [h[p] EXCEPT !.pc = "rate.updateRider",
                               !.average = Average(RatingsOf(h[p].rider))]
  <2>1. h'[p] = x
    BY <1>6 DEF RateFindMany
  <2>2. x.parcel = h[p].parcel /\ x.rider = h[p].rider /\ x.to = h[p].to
    BY DEF HandlerRecords
  <2>3. QED
    BY <1>1, <2>1, <2>2 DEF Kept
<1>7. QED
  BY <1>2, <1>3, <1>4, <1>5, <1>6
     DEF HandlerStep, AcceptFindParcel, AcceptUpdate, AcceptCreateConversation,
         UpdateFindMpesaPayment, UpdateSettleCash, UpdateCreditRider, CancelUpdate,
         FindConversation, CloseConversation, ProofUpdate, RateCreate,
         RateUpdateRider, Places

(* A request starts at its first call, from what it has just read.         *)
LEMMA RequestMove ==
    ASSUME TypeInv, NEW p \in Procs, NewRequest(p)
    PROVE  /\ UNCHANGED <<parcel, rider, pay, conv, rating, pct>>
           /\ \A q \in Procs \ {p} : h'[q] = h[q]
           /\ h[p].pc = "idle" /\ h'[p].parcel \in Parcels
           /\ h'[p].parcel \in InTurn => \A q \in Procs : h[q].parcel # h'[p].parcel
           /\ h'[p].pc \in {"accept.findParcel", "update.findPayment", "update.update",
                            "cancel.update", "proof.update", "rate.create"}
           /\ h'[p].pc \in UpdatePlaces =>
                  LET s == parcel[h'[p].parcel].status
                  IN  /\ h'[p].rider = parcel[h'[p].parcel].riderId /\ h'[p].rider \in Riders
                      /\ s \in UnderWay /\ h'[p].to = PARCEL_TRANSITIONS[s]
                      /\ h'[p].to = "DELIVERED" => h'[p].pc = "update.findPayment"
           /\ h'[p].pc = "cancel.update" =>
                  /\ parcel[h'[p].parcel].status \in {"PENDING", "ACCEPTED"}
                  /\ h'[p].seen = parcel[h'[p].parcel].status
           /\ h'[p].pc = "accept.findParcel" => parcel[h'[p].parcel].status # "NONE"
<1> DEFINE Good == 
           /\ UNCHANGED <<parcel, rider, pay, conv, rating, pct>>
           /\ \A q \in Procs \ {p} : h'[q] = h[q]
           /\ h[p].pc = "idle" /\ h'[p].parcel \in Parcels
           /\ h'[p].parcel \in InTurn => \A q \in Procs : h[q].parcel # h'[p].parcel
<1> USE DEF TypeInv, TypeOK, Free
<1>1. ASSUME NEW r \in Parcels, NEW k \in Riders, AcceptFindRider(p, k, r)
      PROVE  /\ Good /\ h'[p].pc = "accept.findParcel"
             /\ h'[p].parcel = r /\ parcel[r].status # "NONE"
  BY <1>1, RequestFields DEF AcceptFindRider
<1>2. ASSUME NEW r \in Parcels, NEW k \in Riders, UpdateFindParcel(p, k, r)
      PROVE  /\ Good /\ h'[p].parcel = r /\ h'[p].rider = k
             /\ k = parcel[r].riderId /\ parcel[r].status \in UnderWay
             /\ h'[p].to = PARCEL_TRANSITIONS[parcel[r].status]
             /\ h'[p].pc = IF h'[p].to = "DELIVERED" THEN "update.findPayment"
                                                    ELSE "update.update"
  <2> DEFINE to == PARCEL_TRANSITIONS[parcel[r].status]
             pc == IF to = "DELIVERED" THEN "update.findPayment" ELSE "update.update"
             x == Request(pc, r, k, to, parcel[r].status)
  <2>1. x.pc = pc /\ x.parcel = r /\ x.rider = k /\ x.to = to
    <3> HIDE DEF pc, to
    <3>1. QED
      BY RequestFields
  <2>2. h' = [h EXCEPT ![p] = x]
    BY <1>2 DEF UpdateFindParcel
  <2> HIDE DEF x
  <2>3. QED
    BY <1>2, <2>1, <2>2, ChainFacts DEF UpdateFindParcel
<1>3. ASSUME NEW r \in Parcels, CancelFindParcel(p, r)
      PROVE  /\ Good /\ h'[p].parcel = r /\ h'[p].pc = "cancel.update"
             /\ parcel[r].status \in {"PENDING", "ACCEPTED"}
             /\ h'[p].seen = parcel[r].status
  <2> DEFINE x == Request("cancel.update", r, NoOne, "CANCELLED", parcel[r].status)
  <2>1. x.pc = "cancel.update" /\ x.parcel = r /\ x.seen = parcel[r].status
    BY RequestFields
  <2>2. h' = [h EXCEPT ![p] = x]
    BY <1>3 DEF CancelFindParcel
  <2> HIDE DEF x
  <2>3. QED
    BY <1>3, <2>1, <2>2 DEF CancelFindParcel
<1>4. ASSUME NEW r \in Parcels, ProofFindParcel(p, r)
      PROVE  Good /\ h'[p].pc = "proof.update"
  <2> DEFINE x == Request("proof.update", r, NoOne, "NONE", "NONE")
  <2>1. x.pc = "proof.update" /\ x.parcel = r
    BY RequestFields
  <2>2. h' = [h EXCEPT ![p] = x]
    BY <1>4 DEF ProofFindParcel
  <2> HIDE DEF x
  <2>3. QED
    BY <1>4, <2>1, <2>2 DEF ProofFindParcel
<1>5. ASSUME NEW r \in Parcels, NEW s \in Scores[r], RateFindParcel(p, r, s)
      PROVE  Good /\ h'[p].pc = "rate.create"
  <2> DEFINE k == parcel[r].riderId
             x == Request("rate.create", r, k, "NONE", "NONE")
  <2>1. x.pc = "rate.create" /\ x.parcel = r
    BY RequestFields
  <2>2. DOMAIN x = DOMAIN Idle
    BY DEF Request
  <2>3. h' = [h EXCEPT ![p] = [x EXCEPT !.score = s]]
    BY <1>5 DEF RateFindParcel
  <2> HIDE DEF x
  <2>4. h'[p].pc = "rate.create" /\ h'[p].parcel = r
    BY <2>1, <2>2, <2>3 DEF Idle
  <2>5. QED
    BY <1>5, <2>3, <2>4 DEF RateFindParcel
<1>6. QED
  <2> HIDE DEF Good
  <2>1. Good
    BY <1>1, <1>2, <1>3, <1>4, <1>5 DEF NewRequest
  <2>2. /\ h'[p].pc \in {"accept.findParcel", "update.findPayment", "update.update",
                         "cancel.update", "proof.update", "rate.create"}
        /\ h'[p].pc \in UpdatePlaces =>
               LET s == parcel[h'[p].parcel].status
               IN  /\ h'[p].rider = parcel[h'[p].parcel].riderId /\ h'[p].rider \in Riders
                   /\ s \in UnderWay /\ h'[p].to = PARCEL_TRANSITIONS[s]
                   /\ h'[p].to = "DELIVERED" => h'[p].pc = "update.findPayment"
        /\ h'[p].pc = "cancel.update" =>
               /\ parcel[h'[p].parcel].status \in {"PENDING", "ACCEPTED"}
               /\ h'[p].seen = parcel[h'[p].parcel].status
        /\ h'[p].pc = "accept.findParcel" => parcel[h'[p].parcel].status # "NONE"
    BY <1>1, <1>2, <1>3, <1>4, <1>5 DEF NewRequest, UpdatePlaces
  <2>3. QED
    BY <2>1, <2>2 DEF Good

LEMMA HandlerMoves ==
    ASSUME TypeInv, [Next]_vars, NEW p \in Procs
    PROVE  \/ h'[p] = h[p]
           \/ h'[p] = Idle
           \/ HandlerStep(p) /\ Kept(p)
           \/ NewRequest(p)
<1>1. ASSUME NEW q \in Procs, HandlerFails(q)
      PROVE  h'[p] = h[p] \/ h'[p] = Idle
  BY <1>1 DEF HandlerFails, Return, TypeInv, TypeOK
<1>2. ASSUME Environment
      PROVE  h'[p] = h[p]
  BY <1>2 DEF Environment, CreateParcel, SetVerified, SetCommission, PaymentMoves
<1>3. CASE UNCHANGED vars
  BY <1>3 DEF vars
<1>4. ASSUME NEW q \in Procs, HandlerStep(q)
      PROVE  h'[p] = h[p] \/ h'[p] = Idle \/ (HandlerStep(p) /\ Kept(p))
  BY <1>4, OwnMove
<1>5. ASSUME NEW q \in Procs, NewRequest(q)
      PROVE  h'[p] = h[p] \/ NewRequest(p)
  BY <1>5, RequestMove
<1>6. QED
  BY <1>1, <1>2, <1>3, <1>4, <1>5 DEF Next

-----------------------------------------------------------------------------
(* No parcel is delivered unpaid or by nobody, on any parcel and whatever  *)
(* overlaps: nothing takes a rider off a parcel or a payment back, so what *)
(* updateParcelStatus saw of both is still true when it writes, however    *)
(* late.                                                                   *)

AssignedInv ==
    \A p \in Procs :
        h[p].pc \in UpdatePlaces => parcel[h[p].parcel].riderId # NoOne

PaidInv ==
    /\ DeliveredIsPaid
    /\ AssignedInv
    /\ \A p \in Procs :
          h[p].pc = "update.update" /\ h[p].to = "DELIVERED" => Row!Paid(h[p].parcel)

(* The places a handler's own step leads to.                               *)
LEMMA HandlerTargets ==
    ASSUME TypeInv, NEW p \in Procs, HandlerStep(p)
    PROVE  /\ h[p].pc # "idle"
           /\ h'[p].pc \in UpdatePlaces => h[p].pc \in UpdatePlaces
           /\ h'[p].pc = "update.creditRider" => UpdateParcel(p) /\ h[p].to = "DELIVERED"
           /\ h'[p].pc = "update.settleCash" => UpdateFindCashPayment(p)
           /\ h'[p].pc = "update.update" =>
                  /\ \/ UpdateFindMpesaPayment(p) \/ UpdateFindCashPayment(p)
                     \/ UpdateSettleCash(p)
                  /\ pay'[h[p].parcel].st = "COMPLETED"
           /\ h'[p].pc = "accept.update" =>
                  /\ parcel[h[p].parcel].status = "PENDING"
                  /\ h[p].pc = "accept.findParcel"
           /\ h'[p].pc = "accept.createConversation" => AcceptUpdate(p)
           /\ h'[p].pc \in {"findConversation", "closeConversation"} =>
                  UpdateCreditRider(p) \/ CancelUpdate(p) \/ FindConversation(p)
           /\ h'[p].pc = "rate.findMany" => RateCreate(p)
           /\ h'[p].pc = "rate.updateRider" => RateFindMany(p)
           /\ h'[p].pc \notin {"accept.findParcel", "update.findPayment", "cancel.update",
                               "proof.update", "rate.create"}
<1> USE DEF TypeInv, TypeOK, HandlerRecords, At, Goto, UpdatePlaces
<1>0. h[p].pc # "idle" /\ h[p].parcel \in Parcels
  BY DEF HandlerStep, AcceptFindParcel, AcceptUpdate, AcceptCreateConversation,
         UpdateFindMpesaPayment, UpdateFindCashPayment, UpdateSettleCash,
         UpdateParcel, UpdateCreditRider, CancelUpdate, FindConversation,
         CloseConversation, ProofUpdate, RateCreate, RateFindMany,
         RateUpdateRider, HandlersOK
<1>1. CASE Return(p)
  <2>1. h'[p].pc = "idle"
    BY <1>1 DEF Return, Idle
  <2>2. QED
    BY <1>0, <2>1
<1>2. CASE ~Return(p) /\ AcceptFindParcel(p)
  BY <1>0, <1>2 DEF AcceptFindParcel
<1>3. CASE AcceptUpdate(p)
  BY <1>0, <1>3 DEF AcceptUpdate
<1>4. CASE ~Return(p) /\ UpdateFindMpesaPayment(p)
  BY <1>0, <1>4 DEF UpdateFindMpesaPayment, Row!Paid
<1>5. CASE UpdateFindCashPayment(p)
  <2> DEFINE pc == IF pay[h[p].parcel].st = "COMPLETED" THEN "update.update"
                                                       ELSE "update.settleCash"
             x == [h[p] EXCEPT !.seen = pay[h[p].parcel].st, !.pc = pc]
  <2>1. h'[p] = x /\ x.pc = pc /\ pay' = pay /\ h[p].pc = "update.findPayment"
    BY <1>5 DEF UpdateFindCashPayment
  <2> HIDE DEF x
  <2>2. QED
    BY <1>0, <1>5, <2>1
<1>6. CASE ~Return(p) /\ UpdateSettleCash(p)
  BY <1>0, <1>6 DEF UpdateSettleCash, Row!CollectCash
<1>7. CASE ~Return(p) /\ UpdateParcel(p)
  <2>1. h[p].to = "DELIVERED" /\ h[p].pc = "update.update"
    BY <1>7 DEF UpdateParcel
  <2>2. h'[p].pc = "update.creditRider"
    BY <1>7 DEF UpdateParcel
  <2>3. QED
    BY <1>0, <1>7, <2>1, <2>2
<1>8. CASE ~Return(p) /\ (UpdateCreditRider(p) \/ CancelUpdate(p) \/ FindConversation(p))
  <2>1. h'[p].pc \in {"findConversation", "closeConversation"}
    BY <1>8 DEF UpdateCreditRider, CancelUpdate, FindConversation
  <2>2. QED
    BY <1>0, <1>8, <2>1
<1>9. CASE ~Return(p) /\ RateCreate(p)
  <2>1. h'[p].pc = "rate.findMany"
    BY <1>9 DEF RateCreate
  <2>2. QED
    BY <1>0, <1>9, <2>1
<1>10. CASE RateFindMany(p)
  <2> DEFINE x == [h[p] EXCEPT !.pc = "rate.updateRider",
                               !.average = Average(RatingsOf(h[p].rider))]
  <2>1. h'[p] = x /\ x.pc = "rate.updateRider"
    BY <1>10 DEF RateFindMany
  <2> HIDE DEF x
  <2>2. QED
    BY <1>0, <1>10, <2>1
<1>11. QED
  BY <1>1, <1>2, <1>3, <1>4, <1>5, <1>6, <1>7, <1>8, <1>9, <1>10
     DEF HandlerStep, AcceptCreateConversation, CloseConversation, ProofUpdate,
         RateUpdateRider

LEMMA StepAssignedInv == TypeInv /\ AssignedInv /\ [Next]_vars => AssignedInv'
<1> SUFFICES ASSUME TypeInv, AssignedInv, [Next]_vars
             PROVE  AssignedInv'
  OBVIOUS
<1>1. ASSUME NEW p \in Procs, h[p].pc \in UpdatePlaces
      PROVE  h[p].parcel \in Parcels /\ parcel[h[p].parcel].riderId # NoOne
  BY <1>1 DEF AssignedInv, TypeInv, HandlersOK, UpdatePlaces
<1>2. ASSUME NEW p \in Procs, h'[p].pc \in UpdatePlaces
      PROVE  parcel'[h'[p].parcel].riderId # NoOne
  <2>1. CASE h'[p] = h[p]
    BY <1>1, <1>2, <2>1, RiderStays
  <2>2. CASE h'[p] = Idle
    BY <1>2, <2>2 DEF Idle, UpdatePlaces
  <2>3. CASE HandlerStep(p) /\ Kept(p)
    BY <1>1, <1>2, <2>3, HandlerTargets, RiderStays DEF Kept
  <2>4. CASE NewRequest(p)
    BY <1>2, <2>4, RequestMove, ParcelsAssumption
  <2>5. QED
    BY HandlerMoves, <2>1, <2>2, <2>3, <2>4
<1>3. QED
  BY <1>2 DEF AssignedInv

LEMMA StepPaidInv ==
    ASSUME ~Regress
    PROVE  TypeInv /\ PaidInv /\ [Next]_vars => PaidInv'
<1> SUFFICES ASSUME TypeInv, PaidInv, [Next]_vars
             PROVE  PaidInv'
  OBVIOUS
<1>1. ASSUME NEW p \in Procs, h[p].pc \in UpdatePlaces
      PROVE  h[p].parcel \in Parcels /\ parcel[h[p].parcel].riderId # NoOne
  BY <1>1 DEF PaidInv, AssignedInv, TypeInv, HandlersOK, UpdatePlaces
<1>2. AssignedInv'
  BY StepAssignedInv DEF PaidInv
<1>3. ASSUME NEW p \in Procs, h'[p].pc = "update.update", h'[p].to = "DELIVERED"
      PROVE  pay'[h'[p].parcel].st = "COMPLETED"
  <2>1. CASE h'[p] = h[p]
    <3>1. h[p].parcel \in Parcels /\ pay[h[p].parcel].st = "COMPLETED"
      BY <1>1, <1>3, <2>1 DEF PaidInv, Row!Paid, UpdatePlaces
    <3>2. QED
      BY <2>1, <3>1, PaidStays
  <2>2. CASE h'[p] = Idle
    BY <1>3, <2>2 DEF Idle
  <2>3. CASE HandlerStep(p) /\ Kept(p)
    BY <1>3, <2>3, HandlerTargets DEF Kept
  <2>4. CASE NewRequest(p)
    BY <1>3, <2>4, RequestMove DEF UpdatePlaces
  <2>5. QED
    BY HandlerMoves, <2>1, <2>2, <2>3, <2>4
<1>4. ASSUME NEW r \in Parcels, parcel'[r].status = "DELIVERED"
      PROVE  pay'[r].st = "COMPLETED" /\ parcel'[r].riderId # NoOne
  <2>1. pay[r].st = "COMPLETED" /\ parcel[r].riderId # NoOne
    <3>1. CASE parcel[r].status = "DELIVERED"
      BY <3>1 DEF PaidInv, DeliveredIsPaid, Row!Paid
    <3>2. ASSUME NEW p \in Procs, UpdateParcel(p), parcel[r].status # "DELIVERED"
          PROVE  pay[r].st = "COMPLETED" /\ parcel[r].riderId # NoOne
      <4>1. r = h[p].parcel /\ h[p].to = "DELIVERED" /\ h[p].pc = "update.update"
        BY <1>4, <3>2, UpdateParcelEffect DEF UpdateParcel, At
      <4>2. QED
        BY <1>1, <4>1 DEF PaidInv, Row!Paid, UpdatePlaces
    <3>3. QED
      BY <1>4, <3>1, <3>2, ParcelWriters, AcceptUpdateEffect, CancelUpdateEffect,
         ProofUpdateEffect, CreateParcelEffect
  <2>2. QED
    BY <2>1, PaidStays, RiderStays
<1>5. QED
  BY <1>2, <1>3, <1>4 DEF PaidInv, DeliveredIsPaid, Row!Paid

LEMMA InitPaidInv == Init => PaidInv
  BY DEF Init, PaidInv, AssignedInv, DeliveredIsPaid, NoParcel, Idle, UpdatePlaces

(* The gate of updateParcelStatus, for any number of parcels, requests and *)
(* cancellations in between.                                               *)
THEOREM PaidBeforeDelivered ==
    ASSUME ~Regress
    PROVE  Spec => []DeliveredIsPaid
<1>1. PaidInv => DeliveredIsPaid
  BY DEF PaidInv
<1>2. QED
  BY InitTypeInv, StepTypeInv, InitPaidInv, StepPaidInv, <1>1, PTL DEF Spec

-----------------------------------------------------------------------------
(* On the parcels of InTurn every read of a handler is still true when it  *)
(* writes, and the handlers implement the life of a trip (TripLifecycle),  *)
(* whatever becomes of the other parcels.                                  *)

GatePlaces == {"update.findPayment", "update.settleCash", "update.update"}

WritePlaces == GatePlaces \cup {"accept.update", "cancel.update"}

(* What a handler about to write has seen of its parcel.                   *)
SeesRight(p) ==
    LET s == parcel[h[p].parcel].status
    IN  /\ h[p].pc = "accept.update" => s = "PENDING"
        /\ h[p].pc \in GatePlaces => s \in UnderWay /\ h[p].to = PARCEL_TRANSITIONS[s]
        /\ h[p].pc = "cancel.update" => s \in {"PENDING", "ACCEPTED"} /\ h[p].seen = s

SerialInv ==
    /\ \A p, q \in Procs :
          p # q /\ h[p].pc # "idle" /\ h[p].parcel \in InTurn
              => h[p].parcel # h[q].parcel
    /\ \A p \in Procs : h[p].parcel \in InTurn => SeesRight(p)

(* Writing ends the stay at the place.                                     *)
LEMMA WritersMoveOn ==
    ASSUME TypeInv, NEW p \in Procs, AcceptUpdate(p) \/ UpdateParcel(p) \/ CancelUpdate(p)
    PROVE  h[p].pc \in WritePlaces /\ h'[p] # h[p]
<1> USE DEF TypeInv, TypeOK, HandlerRecords, At, Goto, Return, Idle, WritePlaces, GatePlaces
<1>1. CASE AcceptUpdate(p)
  BY <1>1 DEF AcceptUpdate
<1>2. CASE UpdateParcel(p)
  <2> DEFINE x == [h[p] EXCEPT !.pc = "update.creditRider",
                               !.earned = Earnings(h[p].parcel, pct)]
  <2>1. h' = [h EXCEPT ![p] = x] \/ h' = [h EXCEPT ![p] = Idle]
    BY <1>2 DEF UpdateParcel
  <2>2. h[p].pc = "update.update" /\ x.pc = "update.creditRider"
    BY <1>2 DEF UpdateParcel
  <2> HIDE DEF x
  <2>3. QED
    BY <2>1, <2>2
<1>3. CASE CancelUpdate(p)
  BY <1>3 DEF CancelUpdate
<1>4. QED
  BY <1>1, <1>2, <1>3

(* The status of a parcel with a handler about to write stays.             *)
LEMMA WaitingKeepsStatus ==
    ASSUME TypeInv, SerialInv, [Next]_vars, NEW p \in Procs,
           h[p].parcel \in InTurn, h[p].pc \in WritePlaces, h'[p] = h[p]
    PROVE  parcel'[h[p].parcel].status = parcel[h[p].parcel].status
<1>1. /\ h[p].parcel \in Parcels /\ h[p].pc # "idle"
      /\ parcel[h[p].parcel].status # "NONE"
  BY DEF TypeInv, HandlersOK, SerialInv, SeesRight, WritePlaces, GatePlaces, UnderWay
<1>2. ASSUME NEW q \in Procs, AcceptUpdate(q) \/ UpdateParcel(q) \/ CancelUpdate(q)
      PROVE  parcel'[h[p].parcel].status = parcel[h[p].parcel].status
  <2>1. q # p
    BY <1>2, WritersMoveOn
  <2>2. h[q].parcel # h[p].parcel
    BY <1>1, <2>1 DEF SerialInv
  <2>3. QED
    BY <1>1, <1>2, <2>2, AcceptUpdateEffect, UpdateParcelEffect, CancelUpdateEffect
<1>3. ASSUME NEW r \in Parcels, NEW m \in Methods[r], CreateParcel(r, m)
      PROVE  parcel'[h[p].parcel].status = parcel[h[p].parcel].status
  <2>1. r # h[p].parcel
    BY <1>1, <1>3 DEF CreateParcel
  <2>2. QED
    BY <1>1, <1>3, <2>1, CreateParcelEffect
<1>4. QED
  BY ParcelWriters, <1>1, <1>2, <1>3, ProofUpdateEffect

LEMMA StepSerialInv == TypeInv /\ SerialInv /\ [Next]_vars => SerialInv'
<1> SUFFICES ASSUME TypeInv, SerialInv, [Next]_vars
             PROVE  SerialInv'
  OBVIOUS
<1>1. ASSUME NEW p \in Procs, NEW q \in Procs, p # q, h'[p].pc # "idle",
             h'[p].parcel \in InTurn
      PROVE  h'[p].parcel # h'[q].parcel
  <2>1. CASE NewRequest(p)
    BY <1>1, <2>1, RequestMove
  <2>2. CASE NewRequest(q)
    BY <1>1, <2>2, RequestMove
  <2>3. CASE ~NewRequest(p) /\ ~NewRequest(q)
    <3>1. h'[p].parcel = h[p].parcel /\ h[p].pc # "idle"
      BY <1>1, <2>3, HandlerMoves, HandlerTargets DEF Idle, Kept
    <3>2. h'[q].parcel = h[q].parcel \/ h'[q].parcel = NoOne
      BY <2>3, HandlerMoves DEF Idle, Kept
    <3>3. QED
      BY <1>1, <3>1, <3>2, ParcelsAssumption DEF SerialInv
  <2>4. QED
    BY <2>1, <2>2, <2>3
<1>2. ASSUME NEW p \in Procs, h'[p].parcel \in InTurn, h'[p].pc \in WritePlaces
      PROVE  LET s == parcel'[h'[p].parcel].status
             IN  /\ h'[p].pc = "accept.update" => s = "PENDING"
                 /\ h'[p].pc \in GatePlaces =>
                        s \in UnderWay /\ h'[p].to = PARCEL_TRANSITIONS[s]
                 /\ h'[p].pc = "cancel.update" =>
                        s \in {"PENDING", "ACCEPTED"} /\ h'[p].seen = s
  <2>1. CASE h'[p] = h[p]
    BY <1>2, <2>1, WaitingKeepsStatus DEF SerialInv, SeesRight
  <2>2. CASE h'[p] = Idle
    BY <1>2, <2>2 DEF Idle, WritePlaces, GatePlaces
  <2>3. CASE HandlerStep(p) /\ Kept(p)
    <3>1. CASE h'[p].pc = "accept.update"
      <4>1. h[p].pc = "accept.findParcel" /\ parcel[h[p].parcel].status = "PENDING"
        BY <2>3, <3>1, HandlerTargets
      <4>2. AcceptFindParcel(p)
        BY <2>3, <4>1
           DEF HandlerStep, AcceptFindParcel, AcceptUpdate, AcceptCreateConversation,
               UpdateFindMpesaPayment, UpdateFindCashPayment, UpdateSettleCash,
               UpdateParcel, UpdateCreditRider, CancelUpdate, FindConversation,
               CloseConversation, ProofUpdate, RateCreate, RateFindMany,
               RateUpdateRider, At
      <4>3. QED
        BY <2>3, <3>1, <4>1, <4>2 DEF AcceptFindParcel, Kept, GatePlaces
    <3>2. CASE h'[p].pc \in GatePlaces
      <4>1. \/ UpdateFindMpesaPayment(p) \/ UpdateFindCashPayment(p)
            \/ UpdateSettleCash(p)
        BY <2>3, <3>2, HandlerTargets DEF GatePlaces
      <4>2. h[p].pc \in GatePlaces /\ parcel' = parcel
        BY <4>1
           DEF UpdateFindMpesaPayment, UpdateFindCashPayment, UpdateSettleCash, At,
               GatePlaces
      <4>3. QED
        BY <1>2, <2>3, <3>2, <4>2 DEF SerialInv, SeesRight, Kept, GatePlaces
    <3>3. h'[p].pc # "cancel.update"
      BY <2>3, HandlerTargets
    <3>4. QED
      BY <1>2, <3>1, <3>2, <3>3 DEF WritePlaces
  <2>4. CASE NewRequest(p)
    BY <2>4, RequestMove DEF GatePlaces, UpdatePlaces
  <2>5. QED
    BY HandlerMoves, <2>1, <2>2, <2>3, <2>4
<1>3. ASSUME NEW p \in Procs, h'[p].parcel \in InTurn
      PROVE  SeesRight(p)'
  BY <1>2, <1>3 DEF SeesRight, WritePlaces, GatePlaces
<1>4. QED
  BY <1>1, <1>3 DEF SerialInv

(* Whatever overlaps, a request that may write the status is about a       *)
(* parcel that was booked, and an update is to a status of the chain.      *)
StartedInv ==
    \A p \in Procs :
        /\ h[p].pc \in AcceptPlaces \cup UpdatePlaces \cup {"cancel.update"}
               => parcel[h[p].parcel].status # "NONE"
        /\ h[p].pc \in UpdatePlaces =>
               \E s \in UnderWay : h[p].to = PARCEL_TRANSITIONS[s]

LEMMA BookedStays ==
    ASSUME TypeInv, StartedInv, [Next]_vars, NEW r \in Parcels,
           parcel[r].status # "NONE"
    PROVE  parcel'[r].status # "NONE"
<1>1. ASSUME NEW p \in Procs, UpdateParcel(p)
      PROVE  parcel'[r].status # "NONE"
  <2>1. h[p].to # "NONE"
    BY <1>1, ChainFacts DEF StartedInv, UpdateParcel, At, UpdatePlaces, UnderWay
  <2>2. QED
    BY <1>1, <2>1, UpdateParcelEffect
<1>2. QED
  BY <1>1, ParcelWriters, AcceptUpdateEffect, CancelUpdateEffect,
     ProofUpdateEffect, CreateParcelEffect

LEMMA StepStartedInv == TypeInv /\ StartedInv /\ [Next]_vars => StartedInv'
<1> DEFINE Writing == AcceptPlaces \cup UpdatePlaces \cup {"cancel.update"}
<1> SUFFICES ASSUME TypeInv, StartedInv, [Next]_vars,
                    NEW p \in Procs, h'[p].pc \in Writing
             PROVE  /\ parcel'[h'[p].parcel].status # "NONE"
                    /\ h'[p].pc \in UpdatePlaces =>
                           \E s \in UnderWay : h'[p].to = PARCEL_TRANSITIONS[s]
  BY DEF StartedInv
<1>1. ASSUME h[p].pc \in Writing
      PROVE  h[p].parcel \in Parcels /\ parcel'[h[p].parcel].status # "NONE"
  <2>1. h[p].parcel \in Parcels /\ parcel[h[p].parcel].status # "NONE"
    BY <1>1 DEF StartedInv, TypeInv, HandlersOK, AcceptPlaces, UpdatePlaces
  <2>2. QED
    BY <2>1, BookedStays
<1>2. CASE h'[p] = h[p]
  BY <1>1, <1>2 DEF StartedInv
<1>3. CASE h'[p] = Idle
  BY <1>3 DEF Idle, AcceptPlaces, UpdatePlaces
<1>4. CASE HandlerStep(p) /\ Kept(p)
  <2>1. /\ h'[p].pc \in UpdatePlaces => h[p].pc \in UpdatePlaces
        /\ h'[p].pc = "accept.update" => h[p].pc = "accept.findParcel"
        /\ h'[p].pc \notin {"accept.findParcel", "cancel.update"}
    BY <1>4, HandlerTargets
  <2>2. h[p].pc \in Writing
    BY <2>1 DEF AcceptPlaces
  <2>3. QED
    BY <1>1, <1>4, <2>1, <2>2 DEF StartedInv, Kept
<1>5. CASE NewRequest(p)
  <2>1. h'[p].parcel \in Parcels /\ parcel' = parcel
    BY <1>5, RequestMove
  <2>2. parcel[h'[p].parcel].status # "NONE"
    BY <1>5, RequestMove DEF AcceptPlaces, UnderWay
  <2>3. QED
    BY <1>5, <2>1, <2>2, RequestMove
<1>6. QED
  BY HandlerMoves, <1>2, <1>3, <1>4, <1>5

(* What TripLifecycle needs to know of the state before a step.            *)
LifeInv ==
    /\ TypeInv
    /\ AssignedInv
    /\ StartedInv
    /\ Regress \/ PaidInv
    /\ SerialInv

LEMMA InitSerialInv == Init => SerialInv
  BY ParcelsAssumption DEF Init, SerialInv, SeesRight, Idle, GatePlaces

LEMMA InitLifeInv == Init => LifeInv
<1>1. Init => AssignedInv /\ StartedInv
  BY DEF Init, AssignedInv, StartedInv, Idle, AcceptPlaces, UpdatePlaces
<1>2. QED
  BY <1>1, InitTypeInv, InitPaidInv, InitSerialInv DEF LifeInv

LEMMA StepLifeInv == LifeInv /\ [Next]_vars => LifeInv'
<1> SUFFICES ASSUME LifeInv, [Next]_vars
             PROVE  LifeInv'
  OBVIOUS
<1>1. TypeInv' /\ AssignedInv' /\ StartedInv' /\ SerialInv'
  BY StepTypeInv, StepAssignedInv, StepStartedInv, StepSerialInv DEF LifeInv
<1>2. Regress \/ PaidInv'
  BY StepPaidInv DEF LifeInv
<1>3. QED
  BY <1>1, <1>2 DEF LifeInv

(* How the writes of the handlers look in TripLifecycle: the operation in  *)
(* its turn on a parcel of InTurn, a late one on the others.               *)
LEMMA LifeStep ==
    ASSUME LifeInv, [Next]_vars
    PROVE  [Lifecycle!LifeNext]_(Lifecycle!lifeVars)
<1> DEFINE status == [r \in Parcels |-> parcel[r].status]
           assignee == [r \in Parcels |-> parcel[r].riderId]
           paid == [r \in Parcels |-> pay[r].st = "COMPLETED"]
           Stutter == status' = status /\ assignee' = assignee
<1> USE DEF LifeInv, TypeInv, TypeOK, Row!Paid
<1>1. ASSUME NEW p \in Procs, AcceptUpdate(p)
      PROVE  Lifecycle!LifeNext
  <2> DEFINE r == h[p].parcel
             k == h[p].rider
  <2>1. /\ r \in Parcels /\ k \in Riders /\ paid' = paid /\ status[r] # "NONE"
        /\ r \in InTurn => status[r] = "PENDING"
    BY <1>1, AcceptUpdateEffect
       DEF AcceptUpdate, At, SerialInv, SeesRight, StartedInv, AcceptPlaces
  <2>2. /\ status' = [status EXCEPT ![r] = "ACCEPTED"]
        /\ assignee' = [assignee EXCEPT ![r] = k]
    BY <1>1, <2>1, AcceptUpdateEffect
  <2>3. CASE r \in InTurn
    BY <2>1, <2>2, <2>3
       DEF Lifecycle!LifeNext, Lifecycle!TripStep, Lifecycle!Assign, Lifecycle!Move
  <2>4. CASE r \notin InTurn
    BY <2>1, <2>2, <2>4
       DEF Lifecycle!LifeNext, Lifecycle!LateStep, Lifecycle!LateAssign,
           Lifecycle!Move
  <2>5. QED
    BY <2>3, <2>4
<1>2. ASSUME NEW p \in Procs, UpdateParcel(p)
      PROVE  Lifecycle!LifeNext
  <2> DEFINE r == h[p].parcel
             to == h[p].to
  <2>1. /\ r \in Parcels /\ paid' = paid
        /\ status[r] # "NONE" /\ assignee[r] # NoOne
    BY <1>2, UpdateParcelEffect
       DEF UpdateParcel, At, StartedInv, AssignedInv, UpdatePlaces
  <2>2. to = "DELIVERED" => paid[r] \/ Regress
    BY <1>2, <2>1 DEF UpdateParcel, At, PaidInv
  <2>3. status' = [status EXCEPT ![r] = to] /\ assignee' = assignee
    BY <1>2, <2>1, UpdateParcelEffect
  <2>4. CASE r \in InTurn
    <3>1. status[r] \in UnderWay /\ to = PARCEL_TRANSITIONS[status[r]]
      BY <1>2, <2>1, <2>4 DEF UpdateParcel, At, SerialInv, SeesRight, GatePlaces
    <3>2. QED
      BY <2>1, <2>2, <2>3, <3>1, ChainFacts
         DEF Lifecycle!LifeNext, Lifecycle!TripStep, Lifecycle!Advance,
             Lifecycle!MayTake, Lifecycle!Move
  <2>5. CASE r \notin InTurn
    <3>1. PICK s \in UnderWay : to = PARCEL_TRANSITIONS[s]
      BY <1>2 DEF UpdateParcel, At, StartedInv, UpdatePlaces
    <3>2. /\ Lifecycle!MayTake(r, PARCEL_TRANSITIONS[s])
          /\ Lifecycle!Move(r, PARCEL_TRANSITIONS[s])
      BY <2>1, <2>2, <2>3, <3>1 DEF Lifecycle!MayTake, Lifecycle!Move
    <3>3. Lifecycle!LateAdvance(r)
      <4>1. s \in DOMAIN PARCEL_TRANSITIONS
        BY ChainFacts
      <4>2. \E x \in DOMAIN PARCEL_TRANSITIONS :
                /\ Lifecycle!MayTake(r, PARCEL_TRANSITIONS[x])
                /\ Lifecycle!Move(r, PARCEL_TRANSITIONS[x])
        BY <3>2, <4>1, Zenon
      <4> HIDE DEF to
      <4>3. QED
        BY <2>1, <2>3, <4>2 DEF Lifecycle!LateAdvance
    <3>4. QED
      BY <2>1, <2>5, <3>3 DEF Lifecycle!LifeNext, Lifecycle!LateStep
  <2>6. QED
    BY <2>4, <2>5
<1>3. ASSUME NEW p \in Procs, CancelUpdate(p)
      PROVE  Lifecycle!LifeNext
  <2> DEFINE r == h[p].parcel
  <2>1. /\ r \in Parcels /\ paid' = paid /\ status[r] # "NONE"
        /\ r \in InTurn => status[r] \in {"PENDING", "ACCEPTED"}
    BY <1>3, CancelUpdateEffect
       DEF CancelUpdate, At, SerialInv, SeesRight, StartedInv
  <2>2. status' = [status EXCEPT ![r] = "CANCELLED"] /\ assignee' = assignee
    BY <1>3, <2>1, CancelUpdateEffect
  <2>3. CASE r \in InTurn
    BY <2>1, <2>2, <2>3
       DEF Lifecycle!LifeNext, Lifecycle!TripStep, Lifecycle!Withdraw, Lifecycle!Move
  <2>4. CASE r \notin InTurn
    BY <2>1, <2>2, <2>4
       DEF Lifecycle!LifeNext, Lifecycle!LateStep, Lifecycle!LateWithdraw,
           Lifecycle!Move
  <2>5. QED
    BY <2>3, <2>4
<1>4. ASSUME NEW r \in Parcels, NEW m \in Methods[r], CreateParcel(r, m)
      PROVE  Lifecycle!LifeNext
  <2>1. status[r] = "NONE" /\ paid' = paid
    BY <1>4 DEF CreateParcel
  <2>2. \A q \in Parcels :
            /\ parcel'[q].status = IF q = r THEN "PENDING" ELSE parcel[q].status
            /\ parcel'[q].riderId = parcel[q].riderId
    BY <1>4, CreateParcelEffect
  <2>3. status' = [status EXCEPT ![r] = "PENDING"] /\ assignee' = assignee
    BY <2>2
  <2>4. QED
    BY <2>1, <2>3
       DEF Lifecycle!LifeNext, Lifecycle!TripStep, Lifecycle!Book, Lifecycle!Move
<1>5. ASSUME NEW p \in Procs, ProofUpdate(p)
      PROVE  UNCHANGED Lifecycle!lifeVars
  <2>1. Stutter
    BY <1>5, ProofUpdateEffect
  <2>2. paid' = paid
    BY <1>5 DEF ProofUpdate
  <2>3. QED
    BY <2>1, <2>2 DEF Lifecycle!lifeVars
<1>6. ASSUME parcel' = parcel
      PROVE  [Lifecycle!LifeNext]_(Lifecycle!lifeVars)
  <2>1. Stutter
    BY <1>6
  <2>2. \/ paid' = paid
        \/ \E r \in Parcels : paid' = [paid EXCEPT ![r] = TRUE]
        \/ Regress /\ \E r \in Parcels : paid' = [paid EXCEPT ![r] = FALSE]
    <3>1. CASE pay' = pay
      BY <3>1
    <3>2. ASSUME NEW p \in Procs, UpdateSettleCash(p), pay' # pay
          PROVE  \E r \in Parcels : paid' = [paid EXCEPT ![r] = TRUE]
      <4>1. h[p].parcel \in Parcels
        BY <3>2 DEF UpdateSettleCash, At, HandlersOK
      <4>2. pay' = [pay EXCEPT ![h[p].parcel] = [st |-> "COMPLETED", method |-> "CASH"]]
        BY <3>2 DEF UpdateSettleCash, Row!CollectCash
      <4>3. \A r \in Parcels :
                pay'[r].st = "COMPLETED" <=> r = h[p].parcel \/ pay[r].st = "COMPLETED"
        BY <4>1, <4>2
      <4>4. QED
        BY <4>1, <4>3
    <3>3. ASSUME NEW r \in Parcels, PaymentMoves(r)
          PROVE  \/ paid' = paid
                 \/ paid' = [paid EXCEPT ![r] = TRUE]
                 \/ Regress /\ paid' = [paid EXCEPT ![r] = FALSE]
      <4>1. CASE Row!SettleRow(r)
        BY <4>1 DEF Row!SettleRow, Row!PayRows
      <4>2. CASE Row!FailRow(r) \/ Row!ResendRow(r)
        <5>1. \A q \in Parcels :
                  pay'[q].st = "COMPLETED" <=> q # r /\ pay[q].st = "COMPLETED"
          BY <4>2 DEF Row!FailRow, Row!ResendRow, Row!PayRows
        <5>2. pay[r].st = "COMPLETED" => Regress
          BY <4>2 DEF Row!FailRow, Row!ResendRow, Row!Open
        <5>3. CASE pay[r].st = "COMPLETED"
          BY <5>1, <5>2, <5>3
        <5>4. CASE pay[r].st # "COMPLETED"
          BY <5>1, <5>4
        <5>5. QED
          BY <5>3, <5>4
      <4>3. ASSUME NEW m \in Row!PayMethods, Row!CreateRow(r, m)
            PROVE  paid' = paid
        BY <4>3 DEF Row!CreateRow
      <4>4. QED
        BY <3>3, <4>1, <4>2, <4>3 DEF PaymentMoves, Row!PaymentStep
    <3>4. QED
      BY OtherWriters, <3>1, <3>2, <3>3
  <2>3. QED
    BY <2>1, <2>2
       DEF Lifecycle!LifeNext, Lifecycle!TripStep, Lifecycle!Pay, Lifecycle!Unpay,
           Lifecycle!lifeVars
<1>7. QED
  BY ParcelWriters, <1>1, <1>2, <1>3, <1>4, <1>5, <1>6

(* The split handlers of ParcelsService implement the life of a trip,      *)
(* whatever overlaps, fails or repeats: with every operation in its turn   *)
(* on the parcels whose requests do not overlap, with late ones on the     *)
(* others, on payments that are final or not.                              *)
THEOREM ParcelsKeepTripPromise == Spec => KeepsTripPromise
<1>1. Init => Lifecycle!LifeInit
  <2> SUFFICES ASSUME Init
               PROVE  Lifecycle!LifeInit
    OBVIOUS
  <2>1. \A r \in Parcels : Row!Paid(r) = FALSE
    BY DEF Init, Row!RowInit, Row!NoPay, Row!Paid
  <2>2. [r \in Parcels |-> Row!Paid(r)] = [r \in Parcels |-> FALSE]
    BY <2>1, Zenon
  <2>3. QED
    BY <2>2 DEF Init, Lifecycle!LifeInit, NoParcel
<1>2. QED
  BY InitLifeInv, StepLifeInv, LifeStep, <1>1,
     PTL DEF Spec, KeepsTripPromise, Lifecycle!LifeSpec

-----------------------------------------------------------------------------
(* Ratings.  A rating is never changed once given, so an average computed  *)
(* from a list read earlier is still the average of those very ratings     *)
(* when it is written; and each rating whose request does not fail is in   *)
(* a list that is going to be written.                                     *)

RatingInv ==
    /\ \A k \in Riders : \E R \in SUBSET RatingsOf(k) :
          /\ rider[k].ratingAverage = Average(R)
          /\ R = {} => \A r \in RatingsOf(k) \ Faults :
                           \E p \in Rating(k) : h[p].parcel = r
    /\ \A p \in Procs :
          /\ h[p].pc \in RatingPlaces => h[p].parcel \in RatingsOf(h[p].rider)
          /\ h[p].pc = "rate.updateRider" =>
                 \E R \in SUBSET RatingsOf(h[p].rider) :
                     R # {} /\ h[p].average = Average(R)

(* Where no call fails, a handler leaves its place by its own next call.   *)
LEMMA OnlyOwnSteps ==
    ASSUME TypeInv, [Next]_vars, NEW p \in Procs, h[p].pc # "idle", h[p].parcel \notin Faults
    PROVE  h'[p] = h[p] \/ HandlerStep(p)
<1>1. ASSUME NEW q \in Procs, HandlerFails(q)
      PROVE  h'[p] = h[p]
  BY <1>1 DEF HandlerFails, Return, TypeInv, TypeOK
<1>2. ASSUME Environment
      PROVE  h'[p] = h[p]
  BY <1>2 DEF Environment, CreateParcel, SetVerified, SetCommission, PaymentMoves
<1>3. CASE UNCHANGED vars
  BY <1>3 DEF vars
<1>4. ASSUME NEW q \in Procs, HandlerStep(q)
      PROVE  h'[p] = h[p] \/ HandlerStep(p)
  BY <1>4, OwnMove
<1>5. ASSUME NEW q \in Procs, NewRequest(q)
      PROVE  h'[p] = h[p]
  BY <1>5, RequestMove
<1>6. QED
  BY <1>1, <1>2, <1>3, <1>4, <1>5 DEF Next

LEMMA RateCreateEffect ==
    ASSUME TypeInv, NEW p \in Procs, RateCreate(p)
    PROVE  /\ h[p].parcel \in Parcels /\ h[p].rider \in Riders /\ h[p].score # 0
           /\ \A r \in Parcels :
                  Rated(r) \/ r # h[p].parcel => rating'[r] = rating[r]
           /\ ~Rated(h[p].parcel) =>
                  /\ rating'[h[p].parcel] = [score |-> h[p].score, riderId |-> h[p].rider]
                  /\ h'[p].pc = "rate.findMany" /\ Kept(p)
<1>1. h[p].parcel \in Parcels /\ h[p].rider \in Riders /\ h[p].score # 0
  BY DEF RateCreate, At, TypeInv, HandlersOK
<1>2. CASE Rated(h[p].parcel)
  BY <1>1, <1>2 DEF RateCreate
<1>3. CASE ~Rated(h[p].parcel)
  <2>1. /\ rating' = [rating EXCEPT ![h[p].parcel] =
                         [score |-> h[p].score, riderId |-> h[p].rider]]
        /\ Goto(p, "rate.findMany")
    BY <1>3 DEF RateCreate
  <2>2. h'[p].pc = "rate.findMany" /\ Kept(p)
    BY <2>1 DEF Goto, Kept, TypeInv, TypeOK, HandlerRecords
  <2>3. QED
    BY <1>1, <1>3, <2>1, <2>2 DEF TypeInv, TypeOK
<1>4. QED
  BY <1>2, <1>3

LEMMA RatingsStay ==
    ASSUME TypeInv, [Next]_vars
    PROVE  \A r \in Parcels : Rated(r) => rating'[r] = rating[r]
  BY OtherWriters, RateCreateEffect

(* The average of given ratings does not change.                           *)
LEMMA AverageStays ==
    ASSUME TypeInv, [Next]_vars, NEW k, NEW R, R \in SUBSET RatingsOf(k)
    PROVE  R \in SUBSET (RatingsOf(k)') /\ Average(R)' = Average(R)
<1> DEFINE f == [r \in Parcels |-> rating[r].score]
           e == [r \in Parcels |-> rating'[r].score]
<1>1. \A r \in R : r \in Parcels /\ Rated(r) /\ rating'[r] = rating[r]
  BY RatingsStay DEF RatingsOf
<1>2. R \in SUBSET (RatingsOf(k)')
  BY <1>1 DEF RatingsOf, Rated
<1>3. IsFiniteSet(R)
  BY <1>1, FS_Subset, ParcelsAssumption
<1>4. \A r \in R : f[r] \in Int /\ e[r] = f[r]
  BY <1>1 DEF TypeInv, TypeOK, RatingRows
<1>5. SumFunctionOnSet(e, R) = SumFunctionOnSet(f, R)
  <2> HIDE DEF e, f
  <2>1. QED
    BY <1>3, <1>4, SumAgrees
<1>6. Average(R)' = Average(R)
  BY <1>5 DEF Average
<1>7. QED
  BY <1>2, <1>6

(* Only rateParcel's last call writes a rider's average.                   *)
LEMMA AverageWriters ==
    ASSUME TypeInv, [Next]_vars, NEW k \in Riders
    PROVE  \/ rider'[k].ratingAverage = rider[k].ratingAverage
           \/ \E p \in Procs : /\ RateUpdateRider(p) /\ h[p].rider = k
                               /\ rider'[k].ratingAverage = h[p].average
<1> DEFINE Stays == rider'[k].ratingAverage = rider[k].ratingAverage
<1> USE DEF TypeInv, TypeOK
<1>1. ASSUME NEW p \in Procs, HandlerStep(p)
      PROVE  rider' = rider \/ UpdateCreditRider(p) \/ RateUpdateRider(p)
  BY <1>1
     DEF HandlerStep, AcceptFindParcel, AcceptUpdate, AcceptCreateConversation,
         UpdateFindMpesaPayment, UpdateFindCashPayment, UpdateSettleCash,
         UpdateParcel, CancelUpdate, FindConversation, CloseConversation,
         ProofUpdate, RateCreate, RateFindMany
<1>2. ASSUME NEW p \in Procs, UpdateCreditRider(p)
      PROVE  Stays
  BY <1>2 DEF UpdateCreditRider, RiderRows
<1>3. ASSUME NEW p \in Procs, RateUpdateRider(p)
      PROVE  Stays \/ (h[p].rider = k /\ rider'[k].ratingAverage = h[p].average)
  <2> DEFINE x == [rider[k] EXCEPT !.ratingAverage = h[p].average]
  <2>1. rider'[k] = IF k = h[p].rider THEN x ELSE rider[k]
    BY <1>3 DEF RateUpdateRider
  <2>2. x.ratingAverage = h[p].average
    BY DEF RiderRows
  <2> HIDE DEF x
  <2>3. QED
    BY <2>1, <2>2
<1>4. ASSUME NEW p \in Procs, NewRequest(p) \/ HandlerFails(p)
      PROVE  rider' = rider
  BY <1>4, RequestMove DEF HandlerFails
<1>5. ASSUME Environment
      PROVE  Stays
  <2>1. ASSUME NEW j \in Riders, NEW b \in BOOLEAN, SetVerified(j, b)
        PROVE  Stays
    BY <2>1 DEF SetVerified, RiderRows
  <2>2. QED
    BY <1>5, <2>1 DEF Environment, CreateParcel, SetCommission, PaymentMoves
<1>6. CASE UNCHANGED vars
  BY <1>6 DEF vars
<1>7. QED
  BY <1>1, <1>2, <1>3, <1>4, <1>5, <1>6 DEF Next

(* A rating just given is one whose handler goes on to list them.          *)
LEMMA NewRating ==
    ASSUME TypeInv, [Next]_vars, NEW k, NEW r, r \in RatingsOf(k)', r \notin RatingsOf(k)
    PROVE  \E p \in Procs : h'[p].pc = "rate.findMany" /\ h'[p].rider = k /\ h'[p].parcel = r
<1>1. r \in Parcels /\ rating'[r] # rating[r] /\ rating'[r].riderId = k
  BY DEF RatingsOf, Rated
<1>2. PICK p \in Procs : RateCreate(p)
  BY <1>1, OtherWriters
<1>3. r = h[p].parcel /\ ~Rated(r)
  BY <1>1, <1>2, RateCreateEffect
<1>4. /\ rating'[r] = [score |-> h[p].score, riderId |-> h[p].rider]
      /\ h'[p].pc = "rate.findMany" /\ Kept(p)
  BY <1>2, <1>3, RateCreateEffect
<1>5. QED
  BY <1>1, <1>3, <1>4 DEF Kept

(* A rating's handler that does not fail stays until it has written.       *)
LEMMA RatingHandlers ==
    ASSUME TypeInv, [Next]_vars, NEW p \in Procs, h[p].pc \in RatingPlaces,
           h[p].parcel \notin Faults, ~RateUpdateRider(p)
    PROVE  h'[p].pc \in RatingPlaces /\ h'[p].rider = h[p].rider /\ h'[p].parcel = h[p].parcel
<1>1. h[p].pc # "idle"
  BY DEF RatingPlaces
<1>2. CASE h'[p] = h[p]
  BY <1>2
<1>3. CASE HandlerStep(p)
  <2>1. RateFindMany(p)
    BY <1>3
       DEF HandlerStep, AcceptFindParcel, AcceptUpdate, AcceptCreateConversation,
           UpdateFindMpesaPayment, UpdateFindCashPayment, UpdateSettleCash,
           UpdateParcel, UpdateCreditRider, CancelUpdate, FindConversation,
           CloseConversation, ProofUpdate, RateCreate, At, RatingPlaces
  <2> DEFINE x == [h[p] EXCEPT !.pc = "rate.updateRider",
                               !.average = Average(RatingsOf(h[p].rider))]
  <2>2. h'[p] = x
    BY <2>1 DEF RateFindMany, TypeInv, TypeOK
  <2>3. x.pc = "rate.updateRider" /\ x.rider = h[p].rider /\ x.parcel = h[p].parcel
    BY DEF TypeInv, TypeOK, HandlerRecords
  <2> HIDE DEF x
  <2>4. QED
    BY <2>2, <2>3 DEF RatingPlaces
<1>4. QED
  BY <1>1, <1>2, <1>3, OnlyOwnSteps

LEMMA RiderAverageStep ==
    ASSUME TypeInv, RatingInv, [Next]_vars, NEW k \in Riders
    PROVE  \E R \in SUBSET (RatingsOf(k)') :
               /\ rider'[k].ratingAverage = Average(R)'
               /\ R = {} => \A r \in RatingsOf(k)' \ Faults :
                                \E p \in Procs : /\ h'[p].pc \in RatingPlaces
                                                 /\ h'[p].rider = k /\ h'[p].parcel = r
<1>1. ASSUME NEW p \in Procs, RateUpdateRider(p), h[p].rider = k,
             rider'[k].ratingAverage = h[p].average
      PROVE  \E R \in SUBSET (RatingsOf(k)') :
                 R # {} /\ rider'[k].ratingAverage = Average(R)'
  <2>1. PICK R \in SUBSET RatingsOf(k) : R # {} /\ h[p].average = Average(R)
    BY <1>1 DEF RateUpdateRider, At, RatingInv
  <2>2. R \in SUBSET (RatingsOf(k)') /\ Average(R)' = Average(R)
    BY AverageStays
  <2>3. QED
    BY <1>1, <2>1, <2>2
<1>2. ASSUME rider'[k].ratingAverage = rider[k].ratingAverage,
             ~\E p \in Procs : /\ RateUpdateRider(p) /\ h[p].rider = k
                               /\ rider'[k].ratingAverage = h[p].average
      PROVE  \E R \in SUBSET (RatingsOf(k)') :
                 /\ rider'[k].ratingAverage = Average(R)'
                 /\ R = {} => \A r \in RatingsOf(k)' \ Faults :
                                  \E p \in Procs : /\ h'[p].pc \in RatingPlaces
                                                   /\ h'[p].rider = k /\ h'[p].parcel = r
  <2>1. PICK R \in SUBSET RatingsOf(k) :
            /\ rider[k].ratingAverage = Average(R)
            /\ R = {} => \A r \in RatingsOf(k) \ Faults :
                             \E p \in Rating(k) : h[p].parcel = r
    BY DEF RatingInv
  <2>2. R \in SUBSET (RatingsOf(k)') /\ Average(R)' = Average(R)
    BY AverageStays
  <2>3. ASSUME R = {}, NEW r \in RatingsOf(k)' \ Faults
        PROVE  \E p \in Procs : /\ h'[p].pc \in RatingPlaces
                                /\ h'[p].rider = k /\ h'[p].parcel = r
    <3>1. CASE r \in RatingsOf(k)
      <4>1. PICK p \in Procs : h[p].pc \in RatingPlaces /\ h[p].rider = k /\ h[p].parcel = r
        BY <2>1, <2>3, <3>1 DEF Rating, RatingPlaces
      <4>2. ~RateUpdateRider(p)
        <5>1. RateUpdateRider(p) => rider'[k].ratingAverage = h[p].average
          BY <4>1 DEF RateUpdateRider, TypeInv, TypeOK, RiderRows
        <5>2. QED
          BY <1>2, <4>1, <5>1
      <4>3. QED
        BY <2>3, <4>1, <4>2, RatingHandlers
    <3>2. CASE r \notin RatingsOf(k)
      BY <3>2, NewRating DEF RatingPlaces
    <3>3. QED
      BY <3>1, <3>2
  <2>4. QED
    BY <1>2, <2>1, <2>2, <2>3
<1>3. QED
  BY <1>1, <1>2, AverageWriters

LEMMA StepRatingInv == TypeInv /\ RatingInv /\ [Next]_vars => RatingInv'
<1> SUFFICES ASSUME TypeInv, RatingInv, [Next]_vars
             PROVE  RatingInv'
  OBVIOUS
<1>1. ASSUME NEW p \in Procs, h'[p].pc \in RatingPlaces
      PROVE  /\ h'[p].parcel \in Parcels /\ rating'[h'[p].parcel].score # 0
             /\ rating'[h'[p].parcel].riderId = h'[p].rider
  <2>1. ASSUME h[p].pc \in RatingPlaces, h'[p].parcel = h[p].parcel, h'[p].rider = h[p].rider
        PROVE  /\ h'[p].parcel \in Parcels /\ rating'[h'[p].parcel].score # 0
               /\ rating'[h'[p].parcel].riderId = h'[p].rider
    <3>1. /\ h[p].parcel \in Parcels /\ Rated(h[p].parcel)
          /\ rating[h[p].parcel].riderId = h[p].rider
      BY <2>1 DEF RatingInv, RatingsOf
    <3>2. rating'[h[p].parcel] = rating[h[p].parcel]
      BY <3>1, RatingsStay
    <3>3. QED
      BY <2>1, <3>1, <3>2 DEF Rated
  <2>2. CASE h'[p] = h[p]
    BY <1>1, <2>1, <2>2
  <2>3. CASE h'[p] = Idle
    BY <1>1, <2>3 DEF Idle, RatingPlaces
  <2>4. CASE HandlerStep(p) /\ Kept(p)
    <3>1. CASE h'[p].pc = "rate.findMany"
      <4>1. RateCreate(p)
        BY <2>4, <3>1, HandlerTargets
      <4>2. ~Rated(h[p].parcel)
        BY <3>1, <4>1 DEF RateCreate, Return, Idle, TypeInv, TypeOK
      <4>3. /\ h[p].parcel \in Parcels /\ h[p].score # 0
            /\ rating'[h[p].parcel] = [score |-> h[p].score, riderId |-> h[p].rider]
        BY <4>1, <4>2, RateCreateEffect
      <4>4. QED
        BY <2>4, <4>3 DEF Kept
    <3>2. CASE h'[p].pc = "rate.updateRider"
      <4>1. RateFindMany(p)
        BY <2>4, <3>2, HandlerTargets
      <4>2. QED
        BY <2>1, <2>4, <4>1 DEF RateFindMany, At, Kept, RatingPlaces
    <3>3. QED
      BY <1>1, <3>1, <3>2 DEF RatingPlaces
  <2>5. CASE NewRequest(p)
    BY <1>1, <2>5, RequestMove DEF RatingPlaces
  <2>6. QED
    BY HandlerMoves, <2>2, <2>3, <2>4, <2>5
<1>2. ASSUME NEW p \in Procs, h'[p].pc = "rate.updateRider", NEW k, k = h'[p].rider
      PROVE  \E R \in SUBSET (RatingsOf(k)') : R # {} /\ h'[p].average = Average(R)'
  <2>1. CASE h'[p] = h[p]
    <3>1. PICK R \in SUBSET RatingsOf(k) : R # {} /\ h[p].average = Average(R)
      BY <1>2, <2>1 DEF RatingInv
    <3>2. QED
      BY <2>1, <3>1, AverageStays
  <2>2. CASE h'[p] = Idle
    BY <1>2, <2>2 DEF Idle
  <2>3. CASE HandlerStep(p) /\ Kept(p)
    <3>1. RateFindMany(p)
      BY <1>2, <2>3, HandlerTargets
    <3>2. h[p].rider = k /\ h[p].parcel \in RatingsOf(k)
      BY <1>2, <2>3, <3>1 DEF RateFindMany, At, Kept, RatingInv, RatingPlaces
    <3>3. h'[p].average = Average(RatingsOf(k))
      <4> DEFINE n == Average(RatingsOf(h[p].rider))
                 x == [h[p] EXCEPT !.pc = "rate.updateRider", !.average = n]
      <4>1. h'[p] = x
        BY <3>1 DEF RateFindMany, TypeInv, TypeOK
      <4>2. x.average = n
        BY DEF TypeInv, TypeOK, HandlerRecords
      <4>3. QED
        BY <3>2, <4>1, <4>2
    <3>4. PICK R : R = RatingsOf(k)
      OBVIOUS
    <3>5. R \in SUBSET (RatingsOf(k)') /\ Average(R)' = Average(R)
      BY <3>4, AverageStays
    <3>6. QED
      BY <3>2, <3>3, <3>4, <3>5
  <2>4. CASE NewRequest(p)
    BY <1>2, <2>4, RequestMove
  <2>5. QED
    BY HandlerMoves, <2>1, <2>2, <2>3, <2>4
<1>3. (\A k \in Riders : \E R \in SUBSET RatingsOf(k) :
          /\ rider[k].ratingAverage = Average(R)
          /\ R = {} => \A r \in RatingsOf(k) \ Faults :
                           \E p \in Rating(k) : h[p].parcel = r)'
  BY RiderAverageStep DEF Rating, RatingPlaces
<1>4. (\A p \in Procs :
          h[p].pc \in RatingPlaces => h[p].parcel \in RatingsOf(h[p].rider))'
  BY <1>1 DEF RatingsOf, Rated
<1>5. (\A p \in Procs : h[p].pc = "rate.updateRider" =>
          \E R \in SUBSET RatingsOf(h[p].rider) : R # {} /\ h[p].average = Average(R))'
  BY <1>2
<1>6. QED
  BY <1>3, <1>4, <1>5 DEF RatingInv

(* A rider's stars are the average of ratings the rider was given, and of  *)
(* one at least unless each request that gave one failed or is still at    *)
(* it: for any number of parcels rated at the same time.                   *)
THEOREM AveragesAreOwn == Spec => []AverageOfOwnRatings
<1>1. Init => RatingInv
  <2> SUFFICES ASSUME Init
               PROVE  RatingInv
    OBVIOUS
  <2>1. ASSUME NEW k \in Riders
        PROVE  RatingsOf(k) = {} /\ rider[k].ratingAverage = Average({})
    <3>1. RatingsOf(k) = {}
      BY DEF Init, RatingsOf, Rated, NoRating
    <3>2. Average({}) = 0
      BY FS_EmptySet DEF Average
    <3>3. QED
      BY <3>1, <3>2 DEF Init
  <2>2. \A p \in Procs : h[p].pc = "idle"
    BY DEF Init, Idle
  <2>3. QED
    BY <2>1, <2>2 DEF RatingInv, RatingPlaces
<1>2. RatingInv => AverageOfOwnRatings
  <2> SUFFICES ASSUME RatingInv, NEW k \in Riders
               PROVE  \E R \in SUBSET RatingsOf(k) :
                          /\ rider[k].ratingAverage = Average(R)
                          /\ R = {} => RatingsOf(k) \subseteq Faults \/ Rating(k) # {}
    BY DEF AverageOfOwnRatings
  <2>1. PICK R \in SUBSET RatingsOf(k) :
            /\ rider[k].ratingAverage = Average(R)
            /\ R = {} => \A r \in RatingsOf(k) \ Faults :
                             \E p \in Rating(k) : h[p].parcel = r
    BY DEF RatingInv
  <2>2. QED
    BY <2>1
<1>3. QED
  BY InitTypeInv, StepTypeInv, StepRatingInv, <1>1, <1>2, PTL DEF Spec

-----------------------------------------------------------------------------
(* The chat of a parcel of InTurn.  Only the handler that took the parcel, *)
(* and the one that ended its way, may find status and chat apart, and     *)
(* each of them knows in which way.                                        *)

Agrees(r) ==
    /\ parcel[r].status \in UnderWay <=> conv[r] = "ACTIVE"
    /\ parcel[r].status = "DELIVERED" => conv[r] = "CLOSED"
    /\ conv[r] = "CLOSED" => parcel[r].status \in Ended

ClosingPlaces == {"update.creditRider", "findConversation", "closeConversation"}
ChatPlaces == ClosingPlaces \cup {"accept.createConversation"}

(* What handler p, if it is on parcel r, has yet to do for the chat.       *)
Owes(p, r) ==
    h[p].parcel = r =>
        /\ h[p].pc = "accept.createConversation" =>
               parcel[r].status = "ACCEPTED" /\ conv[r] = "NONE"
        /\ h[p].pc \in ClosingPlaces => parcel[r].status \in Ended /\ conv[r] = "ACTIVE"

ChatOf(r) ==
    /\ \A p \in Procs : Owes(p, r)
    /\ Agrees(r) \/ \E p \in Procs : h[p].parcel = r /\ h[p].pc \in ChatPlaces

ChatInv == \A r \in InTurn \ Faults : ChatOf(r)

LEMMA AcceptCreateConversationEffect ==
    ASSUME TypeInv, NEW p \in Procs, AcceptCreateConversation(p)
    PROVE  /\ parcel' = parcel /\ h'[p] = Idle
           /\ \A q \in Parcels :
                  conv'[q] = IF q = h[p].parcel /\ conv[q] = "NONE" THEN "ACTIVE"
                                                                   ELSE conv[q]
  BY DEF AcceptCreateConversation, Return, TypeInv, TypeOK

LEMMA CloseConversationEffect ==
    ASSUME TypeInv, NEW p \in Procs, CloseConversation(p)
    PROVE  /\ parcel' = parcel /\ h'[p] = Idle
           /\ \A q \in Parcels :
                  conv'[q] = IF q = h[p].parcel THEN "CLOSED" ELSE conv[q]
  BY DEF CloseConversation, Return, TypeInv, TypeOK

(* As long as no handler of a parcel acts, its chat stays, and its status, *)
(* but for the booking.                                                    *)
LEMMA LeftAlone ==
    ASSUME TypeInv, [Next]_vars, NEW r \in Parcels,
           \A p \in Procs : HandlerStep(p) => h[p].parcel # r
    PROVE  /\ conv'[r] = conv[r]
           /\ \/ parcel'[r].status = parcel[r].status
              \/ parcel[r].status = "NONE" /\ parcel'[r].status = "PENDING"
<1>1. conv'[r] = conv[r]
  BY OtherWriters, AcceptCreateConversationEffect, CloseConversationEffect DEF HandlerStep
<1>2. ASSUME NEW p \in Procs,
             AcceptUpdate(p) \/ UpdateParcel(p) \/ CancelUpdate(p) \/ ProofUpdate(p)
      PROVE  parcel'[r].status = parcel[r].status
  <2>1. h[p].parcel # r
    BY <1>2 DEF HandlerStep
  <2>2. QED
    BY <1>2, <2>1, AcceptUpdateEffect, UpdateParcelEffect, CancelUpdateEffect,
       ProofUpdateEffect
<1>3. ASSUME NEW q \in Parcels, NEW m \in Methods[q], CreateParcel(q, m)
      PROVE  \/ parcel'[r].status = parcel[r].status
             \/ parcel[r].status = "NONE" /\ parcel'[r].status = "PENDING"
  <2>1. parcel[q].status = "NONE"
    BY <1>3 DEF CreateParcel
  <2>2. QED
    BY <1>3, <2>1, CreateParcelEffect
<1>4. QED
  BY ParcelWriters, <1>1, <1>2, <1>3

(* The calls that have nothing to do with the chat.                        *)
LEMMA QuietSteps ==
    ASSUME TypeInv, [Next]_vars, NEW p \in Procs,
           \/ AcceptFindParcel(p) \/ UpdateFindMpesaPayment(p)
           \/ UpdateFindCashPayment(p) \/ UpdateSettleCash(p) \/ ProofUpdate(p)
           \/ RateCreate(p) \/ RateFindMany(p) \/ RateUpdateRider(p)
    PROVE  /\ conv' = conv
           /\ \A r \in Parcels : parcel'[r].status = parcel[r].status
           /\ h[p].pc \notin ChatPlaces /\ h'[p].pc \notin ChatPlaces
<1>1. conv' = conv /\ (parcel' = parcel \/ ProofUpdate(p))
  BY DEF AcceptFindParcel, UpdateFindMpesaPayment, UpdateFindCashPayment,
         UpdateSettleCash, ProofUpdate, RateCreate, RateFindMany, RateUpdateRider
<1>2. HandlerStep(p)
  BY DEF HandlerStep
<1>3. h[p].pc \notin ChatPlaces \cup {"update.update", "cancel.update", "accept.update"}
  BY DEF AcceptFindParcel, UpdateFindMpesaPayment, UpdateFindCashPayment,
         UpdateSettleCash, ProofUpdate, RateCreate, RateFindMany, RateUpdateRider,
         At, ChatPlaces, ClosingPlaces
<1>4. h'[p].pc \notin ChatPlaces
  <2>1. h'[p].pc \in ChatPlaces =>
            \/ AcceptUpdate(p) \/ UpdateParcel(p) \/ UpdateCreditRider(p)
            \/ CancelUpdate(p) \/ FindConversation(p)
    BY <1>2, HandlerTargets DEF ChatPlaces, ClosingPlaces
  <2>2. QED
    BY <1>3, <2>1
       DEF AcceptUpdate, UpdateParcel, UpdateCreditRider, CancelUpdate,
           FindConversation, At, ChatPlaces, ClosingPlaces
<1>5. QED
  BY <1>1, <1>3, <1>4, ProofUpdateEffect

(* The handler of the parcel makes its next call.                          *)
LEMMA HandlerKeepsChat ==
    ASSUME TypeInv, SerialInv, [Next]_vars, NEW r \in InTurn \ Faults, ChatOf(r),
           NEW p \in Procs, HandlerStep(p), h[p].parcel = r
    PROVE  ChatOf(r)'
<1>0. /\ r \in Parcels /\ conv[r] \in {"NONE", "ACTIVE", "CLOSED"}
      /\ h[p].pc # "idle" /\ Owes(p, r) /\ SeesRight(p)
  BY HandlerTargets, ParcelsAssumption DEF TypeInv, TypeOK, ChatOf, SerialInv
<1>1. \A q \in Procs : q # p => h[q].parcel # r /\ h'[q] = h[q]
  BY <1>0, OwnMove DEF SerialInv
<1>2. h[p].pc \notin ChatPlaces => Agrees(r)
  BY <1>1 DEF ChatOf
<1>3. h'[p] = Idle \/ h'[p].parcel = r
  BY OwnMove DEF Kept
<1>4. SUFFICES /\ Owes(p, r)'
               /\ Agrees(r)' \/ (h'[p].parcel = r /\ h'[p].pc \in ChatPlaces)
  BY <1>1 DEF ChatOf, Owes
<1> USE DEF Owes, Agrees, ChatPlaces, ClosingPlaces
<1>5. Idle.pc = "idle"
  BY DEF Idle
<1>6. CASE \/ AcceptFindParcel(p) \/ UpdateFindMpesaPayment(p)
           \/ UpdateFindCashPayment(p) \/ UpdateSettleCash(p) \/ ProofUpdate(p)
           \/ RateCreate(p) \/ RateFindMany(p) \/ RateUpdateRider(p)
  BY <1>0, <1>2, <1>6, QuietSteps
<1>7. CASE AcceptUpdate(p)
  <2>1. h[p].pc = "accept.update" /\ h'[p].pc = "accept.createConversation"
    BY <1>7 DEF AcceptUpdate, At, Goto, TypeInv, TypeOK, HandlerRecords
  <2>2. parcel[r].status = "PENDING" /\ conv[r] = "NONE"
    BY <1>0, <1>2, <2>1 DEF SeesRight, UnderWay, Ended
  <2>3. parcel'[r].status = "ACCEPTED" /\ conv'[r] = "NONE"
    BY <1>0, <1>7, <2>2, AcceptUpdateEffect DEF AcceptUpdate
  <2>4. QED
    BY <1>3, <1>5, <2>1, <2>3
<1>8. CASE AcceptCreateConversation(p)
  <2>1. parcel[r].status = "ACCEPTED" /\ conv[r] = "NONE"
    BY <1>0, <1>8 DEF AcceptCreateConversation, At
  <2>2. parcel'[r].status = "ACCEPTED" /\ conv'[r] = "ACTIVE" /\ h'[p] = Idle
    BY <1>0, <1>8, <2>1, AcceptCreateConversationEffect
  <2>3. QED
    BY <1>5, <2>2 DEF UnderWay, Ended
<1>9. CASE UpdateParcel(p)
  <2>1. h[p].pc = "update.update" /\ conv' = conv
    BY <1>9 DEF UpdateParcel, At
  <2>2. /\ parcel[r].status \in UnderWay /\ conv[r] = "ACTIVE"
        /\ h[p].to = PARCEL_TRANSITIONS[parcel[r].status]
    BY <1>0, <1>2, <2>1 DEF SeesRight, GatePlaces
  <2>3. parcel'[r].status = h[p].to /\ conv'[r] = "ACTIVE"
    BY <1>0, <1>9, <2>1, <2>2, UpdateParcelEffect
  <2>4. h'[p].pc = IF h[p].to = "DELIVERED" THEN "update.creditRider" ELSE "idle"
    <3> DEFINE x == [h[p] EXCEPT !.pc = "update.creditRider",
                                 !.earned = Earnings(r, pct)]
    <3>1. h' = [h EXCEPT ![p] = IF h[p].to = "DELIVERED" THEN x ELSE Idle]
      BY <1>9 DEF UpdateParcel, Return
    <3>2. x.pc = "update.creditRider"
      BY DEF TypeInv, TypeOK, HandlerRecords
    <3> HIDE DEF x
    <3>3. QED
      BY <1>5, <3>1, <3>2 DEF TypeInv, TypeOK
  <2>5. h[p].to \in UnderWay \cup {"DELIVERED"}
    BY <2>2, ChainFacts
  <2>6. QED
    BY <1>3, <1>5, <2>3, <2>4, <2>5 DEF UnderWay, Ended
<1>10. CASE UpdateCreditRider(p)
  <2>1. /\ h[p].pc = "update.creditRider" /\ h'[p].pc = "findConversation"
        /\ UNCHANGED <<parcel, conv>>
    BY <1>10 DEF UpdateCreditRider, At, Goto, TypeInv, TypeOK, HandlerRecords
  <2>2. QED
    BY <1>0, <1>3, <1>5, <2>1
<1>11. CASE CancelUpdate(p)
  <2>1. /\ h[p].pc = "cancel.update" /\ conv' = conv
        /\ h'[p].pc = IF h[p].seen = "ACCEPTED" THEN "findConversation" ELSE "idle"
    BY <1>5, <1>11
       DEF CancelUpdate, At, Goto, Return, TypeInv, TypeOK, HandlerRecords
  <2>2. parcel[r].status \in {"PENDING", "ACCEPTED"} /\ h[p].seen = parcel[r].status
    BY <1>0, <2>1 DEF SeesRight
  <2>3. parcel'[r].status = "CANCELLED"
    BY <1>0, <1>11, CancelUpdateEffect
  <2>4. QED
    BY <1>0, <1>2, <1>3, <1>5, <2>1, <2>2, <2>3 DEF UnderWay, Ended
<1>12. CASE FindConversation(p)
  <2>1. /\ h[p].pc = "findConversation" /\ UNCHANGED <<parcel, conv>>
        /\ h'[p].pc = IF conv[r] = "NONE" THEN "idle" ELSE "closeConversation"
    BY <1>5, <1>12
       DEF FindConversation, At, Goto, Return, TypeInv, TypeOK, HandlerRecords
  <2>2. QED
    BY <1>0, <1>3, <1>5, <2>1
<1>13. CASE CloseConversation(p)
  <2>1. parcel[r].status \in Ended
    BY <1>0, <1>13 DEF CloseConversation, At
  <2>2. parcel'[r].status = parcel[r].status /\ conv'[r] = "CLOSED" /\ h'[p] = Idle
    BY <1>0, <1>13, CloseConversationEffect
  <2>3. QED
    BY <1>5, <2>1, <2>2 DEF UnderWay, Ended
<1>14. QED
  BY <1>6, <1>7, <1>8, <1>9, <1>10, <1>11, <1>12, <1>13 DEF HandlerStep

LEMMA StepChatInv == TypeInv /\ SerialInv /\ ChatInv /\ [Next]_vars => ChatInv'
<1> SUFFICES ASSUME TypeInv, SerialInv, ChatInv, [Next]_vars,
                    NEW r \in InTurn \ Faults
             PROVE  ChatOf(r)'
  BY DEF ChatInv
<1>0. ChatOf(r) /\ r \in Parcels
  BY ParcelsAssumption DEF ChatInv
<1>1. ASSUME NEW p \in Procs, HandlerStep(p), h[p].parcel = r
      PROVE  ChatOf(r)'
  BY <1>0, <1>1, HandlerKeepsChat
<1>2. ASSUME \A p \in Procs : HandlerStep(p) => h[p].parcel # r
      PROVE  ChatOf(r)'
  <2>1. /\ conv'[r] = conv[r]
        /\ \/ parcel'[r].status = parcel[r].status
           \/ parcel[r].status = "NONE" /\ parcel'[r].status = "PENDING"
    BY <1>0, <1>2, LeftAlone
  <2>2. ASSUME NEW p \in Procs, h'[p].parcel = r, h'[p].pc \in ChatPlaces
        PROVE  h'[p] = h[p]
    <3>1. ~NewRequest(p)
      BY <2>2, RequestMove DEF ChatPlaces, ClosingPlaces
    <3>2. h'[p] # Idle
      BY <2>2 DEF Idle, ChatPlaces, ClosingPlaces
    <3>3. QED
      BY <1>2, <2>2, <3>1, <3>2, HandlerMoves DEF Kept
  <2>3. ASSUME NEW p \in Procs, h[p].parcel = r, h[p].pc \in ChatPlaces
        PROVE  h'[p] = h[p]
    <3>1. h[p].pc # "idle"
      BY <2>3 DEF ChatPlaces, ClosingPlaces
    <3>2. QED
      BY <1>2, <2>3, <3>1, OnlyOwnSteps
  <2>4. ASSUME NEW p \in Procs, h[p].parcel = r, h[p].pc \in ChatPlaces
        PROVE  parcel'[r].status = parcel[r].status
    <3>1. parcel[r].status # "NONE"
      BY <1>0, <2>4 DEF ChatOf, Owes, ChatPlaces, Ended
    <3>2. QED
      BY <2>1, <3>1
  <2>5. \A p \in Procs : Owes(p, r)'
    BY <1>0, <2>1, <2>2, <2>4 DEF ChatOf, Owes, ChatPlaces
  <2>6. CASE Agrees(r)
    <3>1. Agrees(r)'
      BY <2>1, <2>6 DEF Agrees, UnderWay, Ended
    <3>2. QED
      BY <2>5, <3>1 DEF ChatOf
  <2>7. ASSUME NEW p \in Procs, h[p].parcel = r, h[p].pc \in ChatPlaces
        PROVE  ChatOf(r)'
    <3>1. h'[p] = h[p]
      BY <2>3, <2>7
    <3>2. QED
      BY <2>5, <2>7, <3>1 DEF ChatOf
  <2>8. QED
    BY <1>0, <2>6, <2>7 DEF ChatOf
<1>3. QED
  BY <1>1, <1>2

(* A parcel of InTurn on which no call fails has an open chat exactly when *)
(* it is under way, and a closed one once it is delivered, whenever nobody *)
(* is working on it and whatever the other parcels of its rider do.        *)
THEOREM ChatsFollowParcels == Spec => []ChatFollowsParcel
<1>1. Init => ChatInv
  <2> SUFFICES ASSUME Init, NEW r \in InTurn \ Faults
               PROVE  ChatOf(r)
    BY DEF ChatInv
  <2>1. r \in Parcels
    BY ParcelsAssumption
  <2>2. parcel[r].status = "NONE" /\ conv[r] = "NONE"
    BY <2>1 DEF Init, NoParcel
  <2>3. \A p \in Procs : h[p].pc = "idle"
    BY DEF Init, Idle
  <2>4. QED
    BY <2>2, <2>3 DEF ChatOf, Owes, Agrees, ClosingPlaces, UnderWay, Ended
<1>2. ChatInv => ChatFollowsParcel
  BY DEF ChatInv, ChatOf, Agrees, ChatFollowsParcel
<1>3. QED
  BY InitTypeInv, StepTypeInv, InitSerialInv, StepSerialInv, StepChatInv, <1>1, <1>2,
     PTL DEF Spec
=============================================================================
