-------------------------- MODULE PaymentsProofs --------------------------
(***************************************************************************)
(* Proofs about Payments for every set of trips, pushes and handlers, and  *)
(* about the reading of webhook calls for every call.                      *)
(***************************************************************************)
EXTENDS PaymentsProperties, LipanaWebhookProperties, FiniteSetTheorems, TLAPS

(* Rows keep their type when the fields a handler writes are set.          *)
LEMMA RowUpdates ==
    ASSUME NEW x \in Rows, NEW s \in Row!PayStatuses
    PROVE  /\ [x EXCEPT !.st = s] \in Rows
           /\ [x EXCEPT !.st = s, !.method = "CASH"] \in Rows
           /\ [x EXCEPT !.st = s, !.checkout = None, !.receipt = None] \in Rows
           /\ \A u \in Pushes : [x EXCEPT !.checkout = u] \in Rows
           /\ \A u \in Pushes, c \in Pushes \cup {None} :
                  [x EXCEPT !.st = s, !.receipt = u, !.checkout = c] \in Rows
           /\ \A n \in 0 .. Cardinality(Trips) :
                  [x EXCEPT !.st = s, !.method = "CASH", !.born = n] \in Rows
  BY DEF Rows, Row!PayMethods

(* A trip without a row leaves room for one more row.                      *)
LEMMA BirthFits ==
    ASSUME NEW t \in Trips, pay[t].st = "NONE"
    PROVE  RowsBorn + 1 \in 0 .. Cardinality(Trips)
<1> DEFINE Born == {s \in Trips : pay[s].st # "NONE"}
<1>1. IsFiniteSet(Trips) /\ IsFiniteSet(Trips \ {t})
  BY FS_RemoveElement, PaymentsAssumption
<1>2. Cardinality(Trips \ {t}) = Cardinality(Trips) - 1
  BY <1>1, FS_RemoveElement
<1>3. Born \subseteq Trips \ {t}
  OBVIOUS
<1>4. IsFiniteSet(Born) /\ Cardinality(Born) <= Cardinality(Trips \ {t})
  BY <1>1, <1>3, FS_Subset
<1>5. Cardinality(Born) \in Nat /\ Cardinality(Trips) \in Nat
  BY <1>1, <1>4, FS_CardinalityType
<1>6. QED
  BY <1>2, <1>4, <1>5 DEF RowsBorn

-----------------------------------------------------------------------------
(* Type correctness, with the trip every busy handler carries.             *)

Busy == \A p \in Procs : h[p].pc # "idle" => h[p].trip \in Trips

(* What the places of a push and of a webhook need of the push they name.  *)
Named ==
    \A p \in Procs :
        h[p].pc \in {"stk.persist", "webhook.settle"} => h[p].push \in Pushes

TypeInv == TypeOK /\ Busy /\ Named

(* What the provider does of itself.                                       *)
ProviderTells(u) ==
    \E ref \in References :
        ProviderDispatches(u, ref) \/ CustomerPays(u, ref) \/ CustomerRefuses(u, ref)

LEMMA IdleIsHandler == Idle \in HandlerRecords
  BY DEF Idle, HandlerRecords, Places, Phones, Carried, Row!PayMethods, Row!PayStatuses

LEMMA InitTypeInv == Init => TypeInv
<1> SUFFICES ASSUME Init
             PROVE  TypeInv
  OBVIOUS
<1>1. NoRow \in Rows
  <2>1. 0 \in 0 .. Cardinality(Trips)
    BY FS_CardinalityType, PaymentsAssumption
  <2>2. QED
    BY <2>1 DEF NoRow, Rows, Phones, Row!PayMethods, Row!PayStatuses
<1>2. TypeOK
  BY <1>1, IdleIsHandler DEF Init, TypeOK, PushStates
<1>3. QED
  BY <1>2 DEF Init, TypeInv, Busy, Named, Idle

(* The ways a step may change the record of a handler.                     *)
LEMMA ReturnKeeps ==
    ASSUME TypeInv, NEW p \in Procs, Return(p)
    PROVE  h' \in [Procs -> HandlerRecords] /\ Busy' /\ Named'
  BY IdleIsHandler DEF TypeInv, TypeOK, Busy, Named, Return, Idle

LEMMA GotoKeeps ==
    ASSUME TypeInv, NEW p \in Procs, NEW pc \in Places, Goto(p, pc),
           h[p].pc # "idle",
           pc \in {"stk.persist", "webhook.settle"} => h[p].push \in Pushes
    PROVE  h' \in [Procs -> HandlerRecords] /\ Busy' /\ Named'
<1> DEFINE x == [h[p] EXCEPT !.pc = pc]
<1>1. x \in HandlerRecords /\ x.pc = pc /\ x.trip = h[p].trip /\ x.push = h[p].push
  BY DEF TypeInv, TypeOK, HandlerRecords
<1>2. h' = [h EXCEPT ![p] = x]
  BY DEF Goto
<1> HIDE DEF x
<1>3. QED
  BY <1>1, <1>2 DEF TypeInv, TypeOK, Busy, Named

LEMMA StartKeeps ==
    ASSUME TypeInv, NEW p \in Procs, NEW x \in HandlerRecords, Start(p, x),
           x.trip \in Trips, x.pc \in {"stk.persist", "webhook.settle"} => x.push \in Pushes
    PROVE  h' \in [Procs -> HandlerRecords] /\ Busy' /\ Named'
  BY DEF TypeInv, TypeOK, Busy, Named, Start

(* What the provider changes: state and report of one prompt, and a call.  *)
LEMMA Telling ==
    ASSUME TypeInv, NEW u \in Pushes, ProviderTells(u)
    PROVE  /\ push[u].st = "prompt" /\ UNCHANGED <<pay, recent, h>>
           /\ \E y \in [trip : Trips \cup {None}, st : PushStates, success : BOOLEAN],
                 ev \in Events, ref \in References :
                 /\ push' = [push EXCEPT ![u] = y] /\ hooks' = hooks \cup {<<u, ev, ref>>}
                 /\ y.trip = push[u].trip /\ y.st # "unused"
                 /\ push[u].success \/ ev = "success" => y.success
<1> USE DEF TypeInv, TypeOK
<1> DEFINE Effect(y, ev, ref) ==
             /\ push' = [push EXCEPT ![u] = y] /\ hooks' = hooks \cup {<<u, ev, ref>>}
             /\ y.trip = push[u].trip /\ y.st # "unused"
             /\ push[u].success \/ ev = "success" => y.success
           Pushed == [trip : Trips \cup {None}, st : PushStates, success : BOOLEAN]
<1>1. PICK ref \in References :
          ProviderDispatches(u, ref) \/ CustomerPays(u, ref) \/ CustomerRefuses(u, ref)
  BY DEF ProviderTells
<1>2. ASSUME NEW st \in {"prompt", "paid"}, ReportsSuccess(u, st, ref)
      PROVE  \E y \in Pushed, ev \in Events : Effect(y, ev, ref)
  <2> DEFINE y == [push[u] EXCEPT !.st = st, !.success = TRUE]
  <2>1. y \in Pushed /\ y.trip = push[u].trip /\ y.st = st /\ y.success
    BY DEF PushStates
  <2>2. push' = [push EXCEPT ![u] = y] /\ hooks' = hooks \cup {<<u, "success", ref>>}
    BY <1>2 DEF ReportsSuccess
  <2> HIDE DEF y
  <2>3. Effect(y, "success", ref)
    BY <2>1, <2>2
  <2>4. QED
    BY <2>1, <2>3 DEF Events
<1>3. ASSUME CustomerRefuses(u, ref)
      PROVE  \E y \in Pushed, ev \in Events : Effect(y, ev, ref)
  <2> DEFINE y == [push[u] EXCEPT !.st = "refused"]
  <2>1. /\ y \in Pushed /\ y.trip = push[u].trip /\ y.st = "refused"
        /\ push[u].success => y.success
    BY DEF PushStates
  <2>2. push' = [push EXCEPT ![u] = y] /\ hooks' = hooks \cup {<<u, "failed", ref>>}
    BY <1>3 DEF CustomerRefuses
  <2> HIDE DEF y
  <2>3. Effect(y, "failed", ref)
    BY <2>1, <2>2
  <2>4. QED
    BY <2>1, <2>3 DEF Events
<1>4. \E y \in Pushed, ev \in Events : Effect(y, ev, ref)
  BY <1>1, <1>2, <1>3 DEF ProviderDispatches, CustomerPays
<1>5. push[u].st = "prompt" /\ UNCHANGED <<pay, recent, h>>
  BY <1>1 DEF ProviderDispatches, CustomerPays, CustomerRefuses, ReportsSuccess
<1>6. QED
  BY <1>4, <1>5

LEMMA StepTypeInv == TypeInv /\ [Next]_vars => TypeInv'
<1> SUFFICES ASSUME TypeInv, [Next]_vars
             PROVE  TypeInv'
  OBVIOUS
<1> DEFINE HandlersKeep == h' \in [Procs -> HandlerRecords] /\ Busy' /\ Named'
           PayKeeps == pay' \in [Trips -> Rows]
           RestKeeps == /\ push' \in [Pushes -> [trip : Trips \cup {None}, st : PushStates,
                                               success : BOOLEAN]]
                        /\ hooks' \in SUBSET Deliveries
                        /\ recent' \in SUBSET Trips
<1> USE DEF TypeInv, TypeOK
<1>0. /\ h' = h => HandlersKeep
      /\ pay' = pay => PayKeeps
      /\ \A t \in Trips, x \in Rows : pay' = [pay EXCEPT ![t] = x] => PayKeeps
      /\ UNCHANGED <<push, hooks, recent>> => RestKeeps
  BY DEF Busy, Named
<1> USE DEF At
<1>1. ASSUME NEW p \in Procs, NEW t \in Trips, NEW m \in Row!PayMethods,
             NEW phone \in Phones, InitiateFind(p, t, m, phone)
      PROVE  HandlersKeep /\ PayKeeps /\ RestKeeps
  <2> DEFINE x == [Idle EXCEPT !.pc = "initiate.create", !.trip = t,
                               !.method = m, !.phone = phone]
  <2>1. /\ x \in HandlerRecords /\ x.trip = t
        /\ x.pc \notin {"stk.persist", "webhook.settle"}
    BY IdleIsHandler DEF HandlerRecords, Places
  <2>2. Start(p, x)
    BY <1>1 DEF InitiateFind
  <2> HIDE DEF x
  <2>3. QED
    BY <1>0, <1>1, <2>1, <2>2, StartKeeps DEF InitiateFind
<1>2. ASSUME NEW p \in Procs, InitiateCreate(p)
      PROVE  HandlersKeep /\ PayKeeps /\ RestKeeps
  <2> DEFINE t == h[p].trip
             row == [st |-> "PROCESSING", method |-> h[p].method,
                     phone |-> h[p].phone, checkout |-> None, receipt |-> None,
                     born |-> RowsBorn + 1]
  <2>1. t \in Trips
    BY <1>2 DEF InitiateCreate, Busy
  <2>2. pay[t].st = "NONE" => row \in Rows
    BY <2>1, BirthFits DEF Rows, Row!PayStatuses, HandlerRecords
  <2>3. pay' = pay \/ (pay[t].st = "NONE" /\ pay' = [pay EXCEPT ![t] = row])
    BY <1>2 DEF InitiateCreate
  <2>4. Return(p) \/ Goto(p, "stk.call")
    BY <1>2 DEF InitiateCreate
  <2> HIDE DEF row
  <2>5. QED
    BY <1>0, <1>2, <2>1, <2>2, <2>3, <2>4, ReturnKeeps, GotoKeeps
       DEF InitiateCreate, Places
<1>3. ASSUME NEW p \in Procs, NEW t \in Trips, ResendFind(p, t)
      PROVE  HandlersKeep /\ PayKeeps /\ RestKeeps
  <2> DEFINE x == [Idle EXCEPT !.pc = "resend.update", !.trip = t,
                               !.phone = pay[t].phone]
  <2>1. /\ x \in HandlerRecords /\ x.trip = t
        /\ x.pc \notin {"stk.persist", "webhook.settle"}
    BY IdleIsHandler DEF HandlerRecords, Places, Rows
  <2>2. Start(p, x)
    BY <1>3 DEF ResendFind
  <2> HIDE DEF x
  <2>3. QED
    BY <1>0, <1>3, <2>1, <2>2, StartKeeps DEF ResendFind
<1>4. ASSUME NEW p \in Procs, ResendUpdate(p)
      PROVE  HandlersKeep /\ PayKeeps /\ RestKeeps
  <2> DEFINE t == h[p].trip
             row == [pay[t] EXCEPT !.st = "PROCESSING", !.checkout = None,
                                   !.receipt = None]
  <2>1. t \in Trips
    BY <1>4 DEF ResendUpdate, Busy
  <2>2. row \in Rows
    BY <2>1, RowUpdates DEF Row!PayStatuses
  <2>3. pay' = [pay EXCEPT ![t] = row]
    BY <1>4 DEF ResendUpdate
  <2> HIDE DEF row
  <2>4. QED
    BY <1>0, <1>4, <2>1, <2>2, <2>3, GotoKeeps DEF ResendUpdate, Places
<1>5. ASSUME NEW p \in Procs, NEW u \in Pushes, StkCall(p, u)
      PROVE  HandlersKeep /\ PayKeeps /\ RestKeeps
  <2> DEFINE x == [h[p] EXCEPT !.pc = "stk.persist", !.push = u]
  <2>1. h[p].trip \in Trips
    BY <1>5 DEF StkCall, Busy
  <2>2. x \in HandlerRecords /\ x.trip \in Trips /\ x.push = u
    BY <2>1 DEF HandlerRecords, Places
  <2>3. Start(p, x)
    BY <1>5 DEF StkCall, Start
  <2>4. RestKeeps
    BY <1>5, <2>1 DEF StkCall, PushStates
  <2> HIDE DEF x
  <2>5. QED
    BY <1>0, <1>5, <2>2, <2>3, <2>4, StartKeeps DEF StkCall
<1>6. ASSUME NEW p \in Procs, StkPersist(p)
      PROVE  HandlersKeep /\ PayKeeps /\ RestKeeps
  <2> DEFINE t == h[p].trip
             row == [pay[t] EXCEPT !.checkout = h[p].push]
  <2>1. t \in Trips /\ pay[t] \in Rows /\ h[p].push \in Pushes
    BY <1>6 DEF StkPersist, Busy, Named
  <2>2. row \in Rows
    BY <2>1 DEF Rows
  <2>3. pay' = [pay EXCEPT ![t] = row]
    BY <1>6 DEF StkPersist
  <2> HIDE DEF row
  <2>4. QED
    BY <1>0, <1>6, <2>1, <2>2, <2>3, ReturnKeeps DEF StkPersist
<1>7. ASSUME NEW p \in Procs, StkRejectPhone(p) \/ HandlerFails(p)
      PROVE  HandlersKeep /\ PayKeeps /\ RestKeeps
  BY <1>0, <1>7, ReturnKeeps DEF StkRejectPhone, HandlerFails
<1>8. ASSUME NEW p \in Procs, StkTimeout(p)
      PROVE  HandlersKeep /\ PayKeeps /\ RestKeeps
  <2> DEFINE x == [h[p] EXCEPT !.background = TRUE]
  <2>1. h[p].trip \in Trips /\ (h[p].pc = "stk.persist" => h[p].push \in Pushes)
    BY <1>8 DEF StkTimeout, Busy, Named
  <2>2. /\ x \in HandlerRecords /\ x.trip = h[p].trip /\ x.push = h[p].push
        /\ x.pc = h[p].pc /\ h[p].pc # "webhook.settle"
    BY <1>8 DEF StkTimeout, HandlerRecords
  <2>3. Start(p, x)
    BY <1>8 DEF StkTimeout, Start
  <2> HIDE DEF x
  <2>4. QED
    BY <1>0, <1>8, <2>1, <2>2, <2>3, StartKeeps DEF StkTimeout
<1>9. ASSUME NEW p \in Procs, StkError(p)
      PROVE  HandlersKeep /\ PayKeeps /\ RestKeeps
  <2>1. h[p].pc # "idle" /\ (Return(p) \/ Goto(p, "stk.markFailed"))
    BY <1>9 DEF StkError
  <2>2. QED
    BY <1>0, <1>9, <2>1, ReturnKeeps, GotoKeeps DEF StkError, Places
<1>10. ASSUME NEW p \in Procs, StkMarkFailed(p) \/ WebhookFail(p)
       PROVE  HandlersKeep /\ PayKeeps /\ RestKeeps
  <2> DEFINE t == h[p].trip
             row == [pay[t] EXCEPT !.st = "FAILED"]
  <2>1. t \in Trips
    BY <1>10 DEF StkMarkFailed, WebhookFail, Busy
  <2>2. row \in Rows
    BY <2>1 DEF Rows, Row!PayStatuses
  <2>3. pay' = [pay EXCEPT ![t] = row]
    BY <1>10 DEF StkMarkFailed, WebhookFail
  <2> HIDE DEF row
  <2>4. QED
    BY <1>0, <1>10, <2>1, <2>2, <2>3, ReturnKeeps DEF StkMarkFailed, WebhookFail
<1>11. ASSUME NEW p \in Procs, NEW u \in Pushes, NEW ev \in Events,
              NEW ref \in References, NEW ids \in Carried, WebhookFind(p, u, ev, ref, ids)
       PROVE  HandlersKeep /\ PayKeeps /\ RestKeeps
  <2>1. ASSUME NEW t \in Trips, NEW pc \in {"webhook.settle", "webhook.fail"},
               Start(p, [Idle EXCEPT !.pc = pc, !.trip = t, !.push = u, !.ids = ids])
        PROVE  HandlersKeep
    <3> DEFINE x == [Idle EXCEPT !.pc = pc, !.trip = t, !.push = u, !.ids = ids]
    <3>1. x \in HandlerRecords /\ x.trip = t /\ x.push = u
      BY IdleIsHandler DEF HandlerRecords, Places
    <3>2. Start(p, x)
      BY <2>1
    <3> HIDE DEF x
    <3>3. QED
      BY <3>1, <3>2, StartKeeps
  <2>2. \A t \in WebhookMatches(u, ref, ids) : t \in Trips
    BY DEF WebhookMatches, ById, ByReference, Newest
  <2>3. HandlersKeep
    BY <1>0, <1>11, <2>1, <2>2 DEF WebhookFind
  <2>4. QED
    BY <1>0, <1>11, <2>3 DEF WebhookFind
<1>12. ASSUME NEW p \in Procs, WebhookSettle(p)
       PROVE  HandlersKeep /\ PayKeeps /\ RestKeeps
  <2> DEFINE t == h[p].trip
             u == h[p].push
             c == IF "checkout" \in h[p].ids THEN u ELSE pay[t].checkout
             row == [pay[t] EXCEPT !.st = "COMPLETED", !.receipt = u, !.checkout = c]
  <2>1. t \in Trips /\ u \in Pushes
    BY <1>12 DEF WebhookSettle, Busy, Named
  <2>2. row \in Rows
    <3>1. pay[t] \in Rows /\ c \in Pushes \cup {None}
      BY <2>1 DEF Rows
    <3>2. "COMPLETED" \in Row!PayStatuses
      BY DEF Row!PayStatuses
    <3> HIDE DEF c
    <3>3. QED
      BY <2>1, <3>1, <3>2, RowUpdates
  <2>3. pay' = pay \/ pay' = [pay EXCEPT ![t] = row]
    BY <1>12 DEF WebhookSettle
  <2> HIDE DEF row
  <2>4. QED
    BY <1>0, <1>12, <2>1, <2>2, <2>3, ReturnKeeps DEF WebhookSettle
<1>13. ASSUME NEW p \in Procs, NEW t \in Trips, CashFind(p, t)
       PROVE  HandlersKeep /\ PayKeeps /\ RestKeeps
  <2> DEFINE x == [Idle EXCEPT !.pc = "cash.settle", !.trip = t, !.seen = pay[t].st]
  <2>1. /\ x \in HandlerRecords /\ x.trip = t
        /\ x.pc \notin {"stk.persist", "webhook.settle"}
    BY IdleIsHandler DEF HandlerRecords, Places, Rows
  <2>2. Start(p, x)
    BY <1>13 DEF CashFind
  <2> HIDE DEF x
  <2>3. QED
    BY <1>0, <1>13, <2>1, <2>2, StartKeeps DEF CashFind
<1>14. ASSUME NEW p \in Procs, CashSettle(p)
       PROVE  HandlersKeep /\ PayKeeps /\ RestKeeps
  <2> DEFINE t == h[p].trip
             x == [pay[t] EXCEPT !.st = "COMPLETED", !.method = "CASH"]
             y == [x EXCEPT !.born = RowsBorn + 1]
  <2>1. t \in Trips
    BY <1>14 DEF CashSettle, Busy
  <2>2. x \in Rows
    BY <2>1, RowUpdates DEF Row!PayStatuses
  <2>3. pay[t].st = "NONE" => y \in Rows
    BY <2>1, <2>2, BirthFits DEF Rows
  <2>4. \/ pay' = pay
        \/ pay' = [pay EXCEPT ![t] = x]
        \/ pay[t].st = "NONE" /\ pay' = [pay EXCEPT ![t] = y]
    BY <1>14 DEF CashSettle
  <2> HIDE DEF x, y
  <2>5. QED
    BY <1>0, <1>14, <2>1, <2>2, <2>3, <2>4, ReturnKeeps DEF CashSettle
<1>15. ASSUME NEW u \in Pushes, ProviderTells(u)
       PROVE  HandlersKeep /\ PayKeeps /\ RestKeeps
  <2>1. PICK y \in [trip : Trips \cup {None}, st : PushStates, success : BOOLEAN],
             ev \in Events, ref \in References :
            push' = [push EXCEPT ![u] = y] /\ hooks' = hooks \cup {<<u, ev, ref>>}
    BY <1>15, Telling
  <2>2. UNCHANGED <<pay, recent, h>>
    BY <1>15, Telling
  <2>3. RestKeeps
    BY <2>1, <2>2 DEF Deliveries
  <2>4. QED
    BY <1>0, <2>2, <2>3
<1>16. ASSUME NEW t \in Trips, WindowExpires(t)
       PROVE  HandlersKeep /\ PayKeeps /\ RestKeeps
  BY <1>0, <1>16 DEF WindowExpires
<1>17. CASE UNCHANGED vars
  BY <1>0, <1>17 DEF vars
<1>18. HandlersKeep /\ PayKeeps /\ RestKeeps
  BY <1>1, <1>2, <1>3, <1>4, <1>5, <1>6, <1>7, <1>8, <1>9, <1>10, <1>11, <1>12,
     <1>13, <1>14, <1>15, <1>16, <1>17
     DEF Next, HandlerStep, NewRequest, WebhookArrives, ProviderTells, Deliveries
<1>19. QED
  BY <1>18

(* The tables and handlers hold values of their types, for every number of *)
(* trips, pushes and overlapping handlers.                                 *)
THEOREM TypeCorrect == Spec => []TypeOK
<1>1. TypeInv => TypeOK
  BY DEF TypeInv
<1>2. QED
  BY InitTypeInv, StepTypeInv, <1>1, PTL DEF Spec

-----------------------------------------------------------------------------
(* A row COMPLETED by M-Pesa has the receipt of a prompt whose success was *)
(* reported.  Every id that reaches a row came from a push of the same     *)
(* reference: from the handler that sent it, or from a webhook matched by  *)
(* an id stored before or by the reference.                                *)

UnusedHasNoTrip == \A u \in Pushes : push[u].st = "unused" <=> push[u].trip = None

HooksTell ==
    \A m \in hooks :
        /\ push[m[1]].trip \in Trips
        /\ m[2] = "success" => push[m[1]].success

HandlersCarry ==
    \A p \in Procs :
        /\ h[p].pc = "stk.persist" => push[h[p].push].trip = h[p].trip
        /\ h[p].pc = "webhook.settle" => Reported(h[p].push, h[p].trip)

RowOK(row, t) ==
    /\ row.checkout # None => SameReference(row.checkout, t)
    /\ row.receipt # None => Reported(row.receipt, t)
    /\ row.st = "COMPLETED" /\ row.method = "MPESA" => row.receipt # None

RowsOK == \A t \in Trips : RowOK(pay[t], t)

PaidInv == UnusedHasNoTrip /\ HooksTell /\ HandlersCarry /\ RowsOK

(* A push never changes trips, and a success reported stays reported.      *)
LEMMA PushesMoveOn ==
    ASSUME TypeInv, UnusedHasNoTrip, [Next]_vars
    PROVE  /\ UnusedHasNoTrip'
           /\ \A u \in Pushes, t \in Trips : push[u].trip = t => push'[u].trip = t
           /\ \A u \in Pushes, t \in Trips : SameReference(u, t) => SameReference(u, t)'
           /\ \A u \in Pushes, t \in Trips : Reported(u, t) => Reported(u, t)'
<1> USE DEF TypeInv, TypeOK, UnusedHasNoTrip
<1>1. ASSUME NEW p \in Procs, NEW u \in Pushes, StkCall(p, u)
      PROVE  /\ UnusedHasNoTrip'
             /\ \A v \in Pushes : push[v].st # "unused" => push'[v] = push[v]
             /\ \A v \in Pushes : push'[v].success = push[v].success
  <2>1. h[p].trip \in Trips
    BY <1>1 DEF StkCall, At, Busy
  <2>2. QED
    BY <1>1, <2>1, PaymentsAssumption DEF StkCall
<1>2. ASSUME NEW u \in Pushes, ProviderTells(u)
      PROVE  /\ UnusedHasNoTrip'
             /\ \A v \in Pushes : push'[v].trip = push[v].trip
             /\ \A v \in Pushes : push[v].success => push'[v].success
  <2>1. PICK y, ev, ref :
            /\ push' = [push EXCEPT ![u] = y]
            /\ y.trip = push[u].trip /\ y.st # "unused"
            /\ push[u].success \/ ev = "success" => y.success
    BY <1>2, Telling
  <2>2. push[u].st = "prompt"
    BY <1>2, Telling
  <2>3. QED
    BY <2>1, <2>2
<1>3. \/ push' = push
      \/ \E p \in Procs, u \in Pushes : StkCall(p, u)
      \/ \E u \in Pushes : ProviderTells(u)
  <2>1. ASSUME NEW p \in Procs, HandlerStep(p)
        PROVE  push' = push \/ \E u \in Pushes : StkCall(p, u)
    BY <2>1
       DEF HandlerStep, InitiateCreate, ResendUpdate, StkRejectPhone, StkPersist,
           StkMarkFailed, WebhookSettle, WebhookFail, CashSettle
  <2>2. ASSUME NEW p \in Procs, StkTimeout(p) \/ StkError(p) \/ HandlerFails(p)
        PROVE  push' = push
    BY <2>2 DEF StkTimeout, StkError, HandlerFails
  <2>3. ASSUME NEW p \in Procs, NEW t \in Trips, NewRequest(p, t)
        PROVE  push' = push
    BY <2>3 DEF NewRequest, InitiateFind, ResendFind, CashFind
  <2>4. ASSUME NEW m \in Deliveries, WebhookArrives(m)
        PROVE  push' = push
    BY <2>4 DEF WebhookArrives, WebhookFind
  <2>5. ASSUME NEW t \in Trips, WindowExpires(t)
        PROVE  push' = push
    BY <2>5 DEF WindowExpires
  <2>6. QED
    BY <2>1, <2>2, <2>3, <2>4, <2>5 DEF Next, vars, ProviderTells
<1>4. ASSUME NEW u \in Pushes
      PROVE  /\ push[u].trip \in Trips => push'[u].trip = push[u].trip
             /\ push[u].success => push'[u].success
  <2>1. CASE push' = push
    BY <2>1
  <2>2. CASE \E p \in Procs, v \in Pushes : StkCall(p, v)
    BY <1>1, <2>2, PaymentsAssumption
  <2>3. CASE \E v \in Pushes : ProviderTells(v)
    BY <1>2, <2>3
  <2>4. QED
    BY <1>3, <2>1, <2>2, <2>3
<1>5. UnusedHasNoTrip'
  BY <1>1, <1>2, <1>3
<1>6. QED
  BY <1>4, <1>5 DEF SameReference, Reported

(* How a handler gets to the places where it holds a push.                 *)
LEMMA HoldersOrigin ==
    ASSUME TypeInv, [Next]_vars, NEW p \in Procs,
           h'[p].pc \in {"stk.persist", "webhook.settle"}
    PROVE  \/ /\ h'[p].pc = h[p].pc
              /\ h'[p].push = h[p].push /\ h'[p].trip = h[p].trip
           \/ \E u \in Pushes : StkCall(p, u)
           \/ \E u \in Pushes, ev \in Events, ref \in References, ids \in Carried :
                 WebhookFind(p, u, ev, ref, ids)
<1> DEFINE Same == /\ h'[p].pc = h[p].pc
                   /\ h'[p].push = h[p].push /\ h'[p].trip = h[p].trip
           Called == \E u \in Pushes : StkCall(p, u)
           Found == \E u \in Pushes, ev \in Events, ref \in References, ids \in Carried :
                        WebhookFind(p, u, ev, ref, ids)
<1> USE DEF TypeInv, TypeOK
<1>1. h'[p] # Idle
  BY DEF Idle
<1>2. ASSUME h'[p] = h[p]
      PROVE  Same
  BY <1>2
<1>3. ASSUME NEW q \in Procs, Return(q)
      PROVE  Same
  <2>1. q # p
    BY <1>1, <1>3 DEF Return
  <2>2. h'[p] = h[p]
    BY <1>3, <2>1 DEF Return
  <2>3. QED
    BY <2>2
<1>4. ASSUME NEW q \in Procs, NEW pc \in {"stk.call", "stk.markFailed"}, Goto(q, pc)
      PROVE  Same
  <2>1. q # p
    BY <1>4 DEF Goto, HandlerRecords
  <2>2. h'[p] = h[p]
    BY <1>4, <2>1 DEF Goto
  <2>3. QED
    BY <2>2
<1>5. ASSUME NEW q \in Procs, HandlerStep(q)
      PROVE  Same \/ Called
  <2>1. CASE \E u \in Pushes : StkCall(q, u)
    <3>1. CASE q = p
      BY <2>1, <3>1
    <3>2. CASE q # p
      <4>1. h'[p] = h[p]
        BY <2>1, <3>2 DEF StkCall
      <4>2. QED
        BY <4>1
    <3>3. QED
      BY <3>1, <3>2
  <2>2. CASE Return(q) \/ Goto(q, "stk.call")
    BY <1>3, <1>4, <2>2
  <2>3. QED
    BY <1>5, <2>1, <2>2
       DEF HandlerStep, InitiateCreate, ResendUpdate, StkRejectPhone, StkPersist,
           StkMarkFailed, WebhookSettle, WebhookFail, CashSettle
<1>6. ASSUME NEW q \in Procs, StkTimeout(q)
      PROVE  Same
  <2>1. CASE q = p
    <3> DEFINE x == [h[p] EXCEPT !.background = TRUE]
    <3>1. h'[p] = x
      BY <1>6, <2>1 DEF StkTimeout
    <3>2. x.pc = h[p].pc /\ x.push = h[p].push /\ x.trip = h[p].trip
      BY DEF HandlerRecords
    <3>3. QED
      BY <3>1, <3>2
  <2>2. CASE q # p
    <3>1. h'[p] = h[p]
      BY <1>6, <2>2 DEF StkTimeout
    <3>2. QED
      BY <3>1
  <2>3. QED
    BY <2>1, <2>2
<1>7. ASSUME NEW q \in Procs, StkError(q) \/ HandlerFails(q)
      PROVE  Same
  BY <1>3, <1>4, <1>7 DEF StkError, HandlerFails
<1>8. ASSUME NEW q \in Procs, NEW t \in Trips, NewRequest(q, t)
      PROVE  Same
  <2>1. \E x \in {"initiate.create", "resend.update", "cash.settle"} :
            \E y : y.pc = x /\ Start(q, y)
    <3>1. ASSUME NEW m \in Row!PayMethods, NEW phone \in Phones,
                 InitiateFind(q, t, m, phone)
          PROVE  \E y : y.pc = "initiate.create" /\ Start(q, y)
      BY <3>1 DEF InitiateFind, Idle
    <3>2. ASSUME ResendFind(q, t)
          PROVE  \E y : y.pc = "resend.update" /\ Start(q, y)
      BY <3>2 DEF ResendFind, Idle
    <3>3. ASSUME CashFind(q, t)
          PROVE  \E y : y.pc = "cash.settle" /\ Start(q, y)
      BY <3>3 DEF CashFind, Idle
    <3>4. QED
      BY <1>8, <3>1, <3>2, <3>3 DEF NewRequest
  <2>2. q # p
    BY <2>1 DEF Start
  <2>3. h'[p] = h[p]
    BY <2>1, <2>2 DEF Start
  <2>4. QED
    BY <2>3
<1>9. ASSUME NEW m \in Deliveries, WebhookArrives(m)
      PROVE  Same \/ Found
  <2>1. PICK q \in Procs, ids \in Carried : WebhookFind(q, m[1], m[2], m[3], ids)
    BY <1>9 DEF WebhookArrives
  <2>2. CASE q = p
    BY <2>1, <2>2 DEF Deliveries
  <2>3. CASE q # p
    <3>1. h'[p] = h[p]
      BY <2>1, <2>3 DEF WebhookFind, Start
    <3>2. QED
      BY <3>1
  <2>4. QED
    BY <2>2, <2>3
<1>10. ASSUME \/ \E u \in Pushes : ProviderTells(u)
              \/ \E t \in Trips : WindowExpires(t)
              \/ UNCHANGED vars
       PROVE  Same
  <2>1. h'[p] = h[p]
    BY <1>10
       DEF ProviderTells, ProviderDispatches, CustomerPays, CustomerRefuses, ReportsSuccess,
           WindowExpires, vars
  <2>2. QED
    BY <2>1
<1>11. QED
  BY <1>5, <1>6, <1>7, <1>8, <1>9, <1>10 DEF Next, ProviderTells

(* The actions that write the table of payments.                           *)
LEMMA PayWriters ==
    ASSUME [Next]_vars
    PROVE  \/ pay' = pay
           \/ \E p \in Procs :
                 \/ InitiateCreate(p) \/ ResendUpdate(p) \/ StkPersist(p)
                 \/ StkMarkFailed(p) \/ WebhookFail(p)
                 \/ WebhookSettle(p) \/ CashSettle(p)
<1>1. ASSUME NEW p \in Procs,
             StkRejectPhone(p) \/ StkTimeout(p) \/ StkError(p) \/ HandlerFails(p)
      PROVE  pay' = pay
  BY <1>1 DEF StkRejectPhone, StkTimeout, StkError, HandlerFails
<1>2. ASSUME NEW p \in Procs, NEW t \in Trips, NewRequest(p, t)
      PROVE  pay' = pay
  BY <1>2 DEF NewRequest, InitiateFind, ResendFind, CashFind
<1>3. ASSUME NEW m \in Deliveries, WebhookArrives(m)
      PROVE  pay' = pay
  BY <1>3 DEF WebhookArrives, WebhookFind
<1>4. ASSUME NEW p \in Procs, NEW u \in Pushes, StkCall(p, u)
      PROVE  pay' = pay
  BY <1>4 DEF StkCall
<1>5. ASSUME NEW u \in Pushes, ProviderTells(u)
      PROVE  pay' = pay
  BY <1>5
     DEF ProviderTells, ProviderDispatches, CustomerPays, CustomerRefuses, ReportsSuccess
<1>6. ASSUME NEW t \in Trips, WindowExpires(t)
      PROVE  pay' = pay
  BY <1>6 DEF WindowExpires
<1>7. QED
  BY <1>1, <1>2, <1>3, <1>4, <1>5, <1>6 DEF Next, HandlerStep, vars, ProviderTells

(* What each handler leaves in the row it writes.                          *)
LEMMA StepRowsOK ==
    ASSUME TypeInv, PaidInv, [Next]_vars
    PROVE  RowsOK'
<1> USE DEF TypeInv, TypeOK
<1>1. ASSUME pay' = pay
      PROVE  RowsOK'
  <2> SUFFICES ASSUME NEW t \in Trips
               PROVE  RowOK(pay[t], t)'
    BY <1>1 DEF RowsOK
  <2>1. RowOK(pay[t], t) /\ pay[t] \in Rows
    BY DEF PaidInv, RowsOK
  <2>2. /\ \A u \in Pushes : SameReference(u, t) => SameReference(u, t)'
        /\ \A u \in Pushes : Reported(u, t) => Reported(u, t)'
    BY PushesMoveOn DEF PaidInv
  <2>3. QED
    BY <1>1, <2>1, <2>2 DEF RowOK, Rows
<1>2. ASSUME NEW s \in Trips, NEW x, RowOK(x, s), pay' = [pay EXCEPT ![s] = x],
             push' = push
      PROVE  RowsOK'
  BY <1>2 DEF PaidInv, RowsOK, RowOK, SameReference, Reported
<1>3. ASSUME NEW s \in Trips
      PROVE  /\ pay[s] \in Rows /\ RowOK(pay[s], s)
             /\ \A st \in {"PROCESSING", "FAILED"} : RowOK([pay[s] EXCEPT !.st = st], s)
  BY DEF PaidInv, RowsOK, RowOK, Rows
<1> USE DEF At, Busy, Named
<1>4. ASSUME NEW p \in Procs, InitiateCreate(p)
      PROVE  RowsOK'
  <2> DEFINE x == [st |-> "PROCESSING", method |-> h[p].method,
                   phone |-> h[p].phone, checkout |-> None, receipt |-> None,
                   born |-> RowsBorn + 1]
  <2>1. h[p].trip \in Trips /\ RowOK(x, h[p].trip)
    BY <1>4 DEF InitiateCreate, RowOK
  <2>2. pay' = pay \/ pay' = [pay EXCEPT ![h[p].trip] = x]
    BY <1>4 DEF InitiateCreate
  <2> HIDE DEF x
  <2>3. QED
    BY <1>1, <1>2, <1>4, <2>1, <2>2 DEF InitiateCreate
<1>5. ASSUME NEW p \in Procs, ResendUpdate(p)
      PROVE  RowsOK'
  <2> DEFINE x == [pay[h[p].trip] EXCEPT !.st = "PROCESSING", !.checkout = None,
                                         !.receipt = None]
  <2>1. h[p].trip \in Trips
    BY <1>5 DEF ResendUpdate
  <2>2. RowOK(x, h[p].trip)
    BY <1>3, <2>1 DEF RowOK, Rows
  <2>3. pay' = [pay EXCEPT ![h[p].trip] = x]
    BY <1>5 DEF ResendUpdate
  <2> HIDE DEF x
  <2>4. QED
    BY <1>2, <1>5, <2>1, <2>2, <2>3 DEF ResendUpdate
<1>6. ASSUME NEW p \in Procs, StkPersist(p)
      PROVE  RowsOK'
  <2> DEFINE x == [pay[h[p].trip] EXCEPT !.checkout = h[p].push]
  <2>1. h[p].trip \in Trips /\ push[h[p].push].trip = h[p].trip
    BY <1>6 DEF StkPersist, PaidInv, HandlersCarry
  <2>2. RowOK(x, h[p].trip)
    BY <1>3, <2>1 DEF RowOK, Rows, SameReference
  <2>3. pay' = [pay EXCEPT ![h[p].trip] = x]
    BY <1>6 DEF StkPersist
  <2> HIDE DEF x
  <2>4. QED
    BY <1>2, <1>6, <2>1, <2>2, <2>3 DEF StkPersist
<1>7. ASSUME NEW p \in Procs, StkMarkFailed(p) \/ WebhookFail(p)
      PROVE  RowsOK'
  <2> DEFINE x == [pay[h[p].trip] EXCEPT !.st = "FAILED"]
  <2>1. h[p].trip \in Trips
    BY <1>7 DEF StkMarkFailed, WebhookFail
  <2>2. RowOK(x, h[p].trip)
    BY <1>3, <2>1
  <2>3. pay' = [pay EXCEPT ![h[p].trip] = x]
    BY <1>7 DEF StkMarkFailed, WebhookFail
  <2> HIDE DEF x
  <2>4. QED
    BY <1>2, <1>7, <2>1, <2>2, <2>3 DEF StkMarkFailed, WebhookFail
<1>8. ASSUME NEW p \in Procs, WebhookSettle(p)
      PROVE  RowsOK'
  <2> DEFINE t == h[p].trip
             u == h[p].push
             c == IF "checkout" \in h[p].ids THEN u ELSE pay[t].checkout
             x == [pay[t] EXCEPT !.st = "COMPLETED", !.receipt = u, !.checkout = c]
  <2>1. t \in Trips /\ u \in Pushes /\ Reported(u, t)
    BY <1>8 DEF WebhookSettle, PaidInv, HandlersCarry
  <2>2. c # None => SameReference(c, t)
    BY <1>3, <2>1 DEF RowOK, Reported
  <2> HIDE DEF c
  <2>3. x.st = "COMPLETED" /\ x.receipt = u /\ x.checkout = c
    BY <1>3, <2>1 DEF Rows
  <2>4. RowOK(x, t)
    BY <2>1, <2>2, <2>3, PaymentsAssumption DEF RowOK
  <2>5. pay' = pay \/ pay' = [pay EXCEPT ![t] = x]
    BY <1>8 DEF WebhookSettle, c
  <2> HIDE DEF x
  <2>6. QED
    BY <1>1, <1>2, <1>8, <2>1, <2>4, <2>5 DEF WebhookSettle
<1>9. ASSUME NEW p \in Procs, CashSettle(p)
      PROVE  RowsOK'
  <2> DEFINE t == h[p].trip
             x == [pay[t] EXCEPT !.st = "COMPLETED", !.method = "CASH"]
             y == [x EXCEPT !.born = RowsBorn + 1]
  <2>1. t \in Trips
    BY <1>9 DEF CashSettle
  <2>2. RowOK(x, t) /\ RowOK(y, t)
    BY <1>3, <2>1 DEF RowOK, Rows
  <2>3. pay' = pay \/ pay' = [pay EXCEPT ![t] = x] \/ pay' = [pay EXCEPT ![t] = y]
    BY <1>9 DEF CashSettle
  <2> HIDE DEF x, y
  <2>4. QED
    BY <1>1, <1>2, <1>9, <2>1, <2>2, <2>3 DEF CashSettle
<1>10. QED
  BY <1>1, <1>4, <1>5, <1>6, <1>7, <1>8, <1>9, PayWriters

(* What a webhook call says of its prompt stays true while it travels.     *)
LEMMA StepHooksTell ==
    ASSUME TypeInv, PaidInv, [Next]_vars
    PROVE  HooksTell'
<1> USE DEF TypeInv, TypeOK
<1>1. ASSUME NEW m \in hooks
      PROVE  push'[m[1]].trip \in Trips /\ (m[2] = "success" => push'[m[1]].success)
  <2>1. PICK u \in Pushes, t \in Trips :
            /\ u = m[1] /\ push[u].trip = t /\ SameReference(u, t)
            /\ m[2] = "success" => Reported(u, t)
    BY <1>1 DEF PaidInv, HooksTell, SameReference, Reported, Deliveries
  <2>2. push'[u].trip = t /\ (m[2] = "success" => Reported(u, t)')
    BY <2>1, PushesMoveOn DEF PaidInv
  <2>3. QED
    BY <2>1, <2>2 DEF Reported
<1>2. ASSUME NEW u \in Pushes, ProviderTells(u)
      PROVE  HooksTell'
  <2>1. push[u].trip \in Trips
    BY <1>2, Telling DEF PaidInv, UnusedHasNoTrip
  <2>2. \E ev \in Events, ref \in References :
            /\ hooks' = hooks \cup {<<u, ev, ref>>}
            /\ push'[u].trip = push[u].trip
            /\ ev = "success" => push'[u].success
    BY <1>2, Telling
  <2>3. QED
    BY <1>1, <2>1, <2>2 DEF HooksTell
<1>3. ASSUME hooks' \subseteq hooks
      PROVE  HooksTell'
  BY <1>1, <1>3 DEF HooksTell
<1>4. \/ hooks' \subseteq hooks
      \/ \E u \in Pushes : ProviderTells(u)
  <2>1. ASSUME NEW p \in Procs, HandlerStep(p)
        PROVE  hooks' = hooks
    BY <2>1
       DEF HandlerStep, InitiateCreate, ResendUpdate, StkRejectPhone, StkCall,
           StkPersist, StkMarkFailed, WebhookSettle, WebhookFail, CashSettle
  <2>2. ASSUME NEW p \in Procs, StkTimeout(p) \/ StkError(p) \/ HandlerFails(p)
        PROVE  hooks' = hooks
    BY <2>2 DEF StkTimeout, StkError, HandlerFails
  <2>3. ASSUME NEW p \in Procs, NEW t \in Trips, NewRequest(p, t)
        PROVE  hooks' = hooks
    BY <2>3 DEF NewRequest, InitiateFind, ResendFind, CashFind
  <2>4. ASSUME NEW m \in Deliveries, WebhookArrives(m)
        PROVE  hooks' \subseteq hooks
    BY <2>4 DEF WebhookArrives, WebhookFind
  <2>5. ASSUME NEW t \in Trips, WindowExpires(t)
        PROVE  hooks' = hooks
    BY <2>5 DEF WindowExpires
  <2>6. QED
    BY <2>1, <2>2, <2>3, <2>4, <2>5 DEF Next, vars, ProviderTells
<1>5. QED
  BY <1>2, <1>3, <1>4

(* A webhook finds a row of the reference of its prompt.                   *)
LEMMA MatchesReference ==
    ASSUME TypeInv, PaidInv, NEW u \in Pushes, NEW ref, NEW ids,
           push[u].trip \in Trips, NEW t \in WebhookMatches(u, ref, ids)
    PROVE  t \in Trips /\ SameReference(u, t)
<1>1. ASSUME NEW s \in ById(u, ids)
      PROVE  s \in Trips /\ SameReference(u, s)
  <2>1. s \in Trips /\ (pay[s].checkout = u \/ pay[s].receipt = u) /\ u # None
    BY <1>1, PaymentsAssumption DEF ById
  <2>2. RowOK(pay[s], s)
    BY <2>1 DEF PaidInv, RowsOK
  <2>3. QED
    BY <2>1, <2>2 DEF RowOK, Reported
<1>2. ASSUME NEW s \in ByReference(u)
      PROVE  s \in Trips /\ SameReference(u, s)
  BY <1>2 DEF ByReference, SameReference
<1>3. QED
  BY <1>1, <1>2 DEF WebhookMatches, Newest

(* A handler holds a push of its own trip, or one of the same reference.   *)
LEMMA StepHandlersCarry ==
    ASSUME TypeInv, PaidInv, [Next]_vars
    PROVE  HandlersCarry'
<1> USE DEF TypeInv, TypeOK
<1> SUFFICES ASSUME NEW p \in Procs, h'[p].pc \in {"stk.persist", "webhook.settle"}
             PROVE  /\ h'[p].pc = "stk.persist" => push'[h'[p].push].trip = h'[p].trip
                    /\ h'[p].pc = "webhook.settle" => Reported(h[p].push, h[p].trip)'
  BY DEF HandlersCarry
<1>1. CASE /\ h'[p].pc = h[p].pc
           /\ h'[p].push = h[p].push /\ h'[p].trip = h[p].trip
  <2>1. PICK u \in Pushes, t \in Trips : u = h[p].push /\ t = h[p].trip
    BY <1>1 DEF Busy, Named
  <2>2. /\ h[p].pc = "stk.persist" => push[u].trip = t
        /\ h[p].pc = "webhook.settle" => Reported(u, t)
    BY <2>1 DEF PaidInv, HandlersCarry
  <2>3. /\ h[p].pc = "stk.persist" => push'[u].trip = t
        /\ h[p].pc = "webhook.settle" => Reported(u, t)'
    BY <2>2, PushesMoveOn DEF PaidInv
  <2>4. QED
    BY <1>1, <2>1, <2>3 DEF Reported, SameReference
<1>2. ASSUME NEW u \in Pushes, StkCall(p, u)
      PROVE  h'[p].pc = "stk.persist" /\ push'[h'[p].push].trip = h'[p].trip
  <2> DEFINE x == [h[p] EXCEPT !.pc = "stk.persist", !.push = u]
  <2>1. x.pc = "stk.persist" /\ x.push = u /\ x.trip = h[p].trip
    BY DEF HandlerRecords
  <2>2. h'[p] = x /\ push'[u].trip = h[p].trip
    BY <1>2 DEF StkCall
  <2>3. QED
    BY <2>1, <2>2
<1>3. ASSUME NEW u \in Pushes, NEW ev \in Events, NEW ref \in References,
             NEW ids \in Carried, WebhookFind(p, u, ev, ref, ids)
      PROVE  h'[p].pc = "webhook.settle" /\ Reported(h[p].push, h[p].trip)'
  <2>1. h[p].pc = "idle" /\ <<u, ev, ref>> \in hooks /\ push' = push
    BY <1>3 DEF WebhookFind
  <2>2. PICK t \in WebhookMatches(u, ref, ids) :
            Start(p, [Idle EXCEPT !.pc = IF ev = "success" THEN "webhook.settle"
                                                           ELSE "webhook.fail",
                                  !.trip = t, !.push = u, !.ids = ids])
    BY <1>3, <2>1 DEF WebhookFind
  <2>3. h'[p].push = u /\ h'[p].trip = t /\ ev = "success" /\ h'[p].pc = "webhook.settle"
    BY <2>2 DEF Start, Idle
  <2>4. push[u].trip \in Trips /\ push[u].success
    BY <2>1, <2>3 DEF PaidInv, HooksTell
  <2>5. SameReference(u, t)
    BY <2>2, <2>4, MatchesReference
  <2>6. QED
    BY <2>1, <2>3, <2>4, <2>5 DEF Reported, SameReference
<1>4. QED
  BY <1>1, <1>2, <1>3, HoldersOrigin

(* Every M-Pesa payment that is COMPLETED has the receipt of a prompt the  *)
(* provider reported a success of, for this trip or for one whose account  *)
(* reference reads the same: for any number of trips, prompts, calls and   *)
(* overlapping handlers, whatever fails and whichever prefixes coincide.   *)
THEOREM CompletedWasReported == Spec => []CompletedIsReported
<1>1. Init => PaidInv
  BY DEF Init, PaidInv, UnusedHasNoTrip, HooksTell, HandlersCarry, RowsOK, RowOK,
         NoRow, Idle
<1>2. TypeInv /\ PaidInv /\ [Next]_vars => PaidInv'
  BY PushesMoveOn, StepHooksTell, StepHandlersCarry, StepRowsOK DEF PaidInv
<1>3. TypeInv /\ PaidInv => CompletedIsReported
  BY DEF TypeInv, TypeOK, Rows, PaidInv, RowsOK, RowOK, CompletedIsReported
<1>4. QED
  BY InitTypeInv, StepTypeInv, <1>1, <1>2, <1>3, PTL DEF Spec

-----------------------------------------------------------------------------
(* Payments implements PaymentRow.  A handler about to write a row has a   *)
(* row it may move: with one handler at a time on a payment nobody else    *)
(* completes the row or turns it to cash in between; with more of them     *)
(* the row at least stays there.                                           *)

OpenRow(x) ==
    /\ x.st # "NONE"
    /\ OnePerTrip => x.method = "MPESA" /\ x.st # "COMPLETED"

RowPlaces == {"resend.update", "stk.call", "stk.persist", "stk.markFailed",
              "webhook.settle", "webhook.fail"}

(* Only rows paid by prompts have ids a webhook can find them by.          *)
KnownRow(x) ==
    x.checkout # None \/ x.receipt # None => OpenRow(x) \/ x.st = "COMPLETED"

Serial ==
    OnePerTrip =>
        \A p, q \in Procs :
            h[p].pc # "idle" /\ h[q].pc # "idle" /\ h[p].trip = h[q].trip => p = q

OpenInv ==
    /\ Serial
    /\ \A p \in Procs : h[p].pc \in RowPlaces => OpenRow(pay[h[p].trip])
    /\ \A t \in Trips : KnownRow(pay[t])

(* A handler ends, goes on with its trip, or takes a trip nobody holds.    *)
Takes(p, x) ==
    \/ x.pc = "idle"
    \/ h[p].pc # "idle" /\ x.trip = h[p].trip
    \/ OnePerTrip => \A q \in Procs : h[q].trip # x.trip

Writes(p, row) ==
    /\ h[p].pc # "idle" /\ row.st # "NONE" /\ KnownRow(row)
    /\ pay' = [pay EXCEPT ![h[p].trip] = row]

LEMMA HandlerKeepsOpen ==
    ASSUME TypeInv, OpenInv, NEW p \in Procs, NEW x, Start(p, x), Takes(p, x),
           NEW row, pay' = pay \/ Writes(p, row),
           x.pc \in RowPlaces => OpenRow(pay'[x.trip])
    PROVE  OpenInv'
<1> USE DEF TypeInv, TypeOK
<1>1. h'[p] = x /\ \A q \in Procs \ {p} : h'[q] = h[q]
  BY DEF Start
<1>2. /\ \A t \in Trips : KnownRow(pay'[t])
      /\ \A t \in Trips : pay'[t] = pay[t] \/ (h[p].pc # "idle" /\ t = h[p].trip)
      /\ \A t \in Trips : pay'[t] = pay[t] \/ pay'[t].st # "NONE"
  <2>1. CASE pay' = pay
    BY <2>1 DEF OpenInv
  <2>2. CASE Writes(p, row)
    BY <2>2 DEF Writes, OpenInv
  <2>3. QED
    BY <2>1, <2>2
<1>3. Serial'
  BY <1>1 DEF OpenInv, Serial, Takes
<1>4. ASSUME NEW q \in Procs, h'[q].pc \in RowPlaces
      PROVE  OpenRow(pay'[h'[q].trip])
  <2>1. CASE q = p
    BY <1>1, <1>4, <2>1
  <2>2. CASE q # p
    <3>1. h'[q] = h[q] /\ h[q].pc # "idle" /\ h[q].trip \in Trips /\ OpenRow(pay[h[q].trip])
      BY <1>1, <1>4, <2>2 DEF OpenInv, RowPlaces, Busy
    <3>2. CASE pay'[h[q].trip] = pay[h[q].trip]
      BY <3>1, <3>2
    <3>3. CASE pay'[h[q].trip] # pay[h[q].trip]
      <4>1. h[p].pc # "idle" /\ h[p].trip = h[q].trip /\ pay'[h[q].trip].st # "NONE"
        BY <1>2, <3>1, <3>3
      <4>2. ~OnePerTrip
        BY <2>2, <3>1, <4>1 DEF OpenInv, Serial
      <4>3. QED
        BY <3>1, <4>1, <4>2 DEF OpenRow
    <3>4. QED
      BY <3>2, <3>3
  <2>3. QED
    BY <2>1, <2>2
<1>5. QED
  BY <1>2, <1>3, <1>4 DEF OpenInv, KnownRow, OpenRow

LEMMA ReturnKeepsOpen ==
    ASSUME TypeInv, OpenInv, NEW p \in Procs, Return(p),
           NEW row, pay' = pay \/ Writes(p, row)
    PROVE  OpenInv'
<1>1. Start(p, Idle) /\ Takes(p, Idle) /\ Idle.pc \notin RowPlaces
  BY DEF Return, Start, Takes, Idle, RowPlaces
<1>2. QED
  BY <1>1, HandlerKeepsOpen

LEMMA GotoKeepsOpen ==
    ASSUME TypeInv, OpenInv, NEW p \in Procs, NEW pc, Goto(p, pc), h[p].pc # "idle",
           NEW row, pay' = pay \/ Writes(p, row),
           OpenRow(pay'[h[p].trip])
    PROVE  OpenInv'
<1> DEFINE x == [h[p] EXCEPT !.pc = pc]
<1>1. Start(p, x) /\ x.trip = h[p].trip
  BY DEF Goto, Start, TypeInv, TypeOK, HandlerRecords
<1> HIDE DEF x
<1>2. Takes(p, x)
  BY <1>1 DEF Takes
<1>3. QED
  BY <1>1, <1>2, HandlerKeepsOpen

(* What the handlers write leaves an open row open.                        *)
LEMMA RowsStayOpen ==
    ASSUME NEW x \in Rows, OpenRow(x)
    PROVE  /\ OpenRow([x EXCEPT !.st = "FAILED"])
           /\ OpenRow([x EXCEPT !.st = "PROCESSING", !.checkout = None, !.receipt = None])
           /\ \A u : OpenRow([x EXCEPT !.checkout = u])
  BY DEF OpenRow, Rows

LEMMA OpenIsKnown ==
    ASSUME NEW x, OpenRow(x) \/ x.st = "COMPLETED"
    PROVE  x.st # "NONE" /\ KnownRow(x)
  BY DEF OpenRow, KnownRow

LEMMA StepOpenInv ==
    ASSUME TypeInv, OpenInv, [Next]_vars
    PROVE  OpenInv'
<1> USE DEF At
<1>1. ASSUME NEW p \in Procs, NEW x, NEW t \in Trips, Start(p, x), x.trip = t,
             x.pc \in RowPlaces => OpenRow(pay[t]), Free(p, t), pay' = pay
      PROVE  OpenInv'
  <2>1. Takes(p, x)
    BY <1>1 DEF Free, Takes
  <2>2. QED
    BY <1>1, <2>1, HandlerKeepsOpen
<1>2. ASSUME NEW p \in Procs, NEW t \in Trips, NewRequest(p, t)
      PROVE  OpenInv'
  <2>1. ASSUME NEW m \in Row!PayMethods, NEW phone \in Phones,
               InitiateFind(p, t, m, phone)
        PROVE  OpenInv'
    <3> DEFINE x == [Idle EXCEPT !.pc = "initiate.create", !.trip = t,
                                 !.method = m, !.phone = phone]
    <3>1. x.trip = t /\ x.pc \notin RowPlaces
      BY DEF Idle, RowPlaces
    <3>2. Start(p, x) /\ Free(p, t) /\ pay' = pay
      BY <2>1 DEF InitiateFind
    <3> HIDE DEF x
    <3>3. QED
      BY <1>1, <3>1, <3>2
  <2>2. ASSUME ResendFind(p, t)
        PROVE  OpenInv'
    <3> DEFINE x == [Idle EXCEPT !.pc = "resend.update", !.trip = t,
                                 !.phone = pay[t].phone]
    <3>1. x.trip = t
      BY DEF Idle
    <3>2. Start(p, x) /\ Free(p, t) /\ pay' = pay /\ OpenRow(pay[t])
      BY <2>2 DEF ResendFind, OpenRow
    <3> HIDE DEF x
    <3>3. QED
      BY <1>1, <3>1, <3>2
  <2>3. ASSUME CashFind(p, t)
        PROVE  OpenInv'
    <3> DEFINE x == [Idle EXCEPT !.pc = "cash.settle", !.trip = t, !.seen = pay[t].st]
    <3>1. x.trip = t /\ x.pc \notin RowPlaces
      BY DEF Idle, RowPlaces
    <3>2. Start(p, x) /\ Free(p, t) /\ pay' = pay
      BY <2>3 DEF CashFind
    <3> HIDE DEF x
    <3>3. QED
      BY <1>1, <3>1, <3>2
  <2>4. QED
    BY <1>2, <2>1, <2>2, <2>3 DEF NewRequest
<1>3. ASSUME NEW p \in Procs, NEW u \in Pushes, NEW ev \in Events,
             NEW ref \in References, NEW ids \in Carried, WebhookFind(p, u, ev, ref, ids)
      PROVE  OpenInv'
  <2>1. ASSUME NEW t \in WebhookMatches(u, ref, ids), pay[t].st # "COMPLETED"
        PROVE  t \in Trips /\ OpenRow(pay[t])
    <3>1. CASE t \in ById(u, ids)
      <4>1. t \in Trips /\ (pay[t].checkout # None \/ pay[t].receipt # None)
        BY <3>1, PaymentsAssumption DEF ById
      <4>2. QED
        BY <2>1, <4>1 DEF OpenInv, KnownRow
    <3>2. CASE t \in ByReference(u)
      BY <3>2 DEF ByReference, OpenRow
    <3>3. QED
      BY <2>1, <3>1, <3>2 DEF WebhookMatches, Newest
  <2>2. pay' = pay
    BY <1>3 DEF WebhookFind
  <2>3. CASE h' = h
    BY <2>2, <2>3 DEF OpenInv, Serial, KnownRow, OpenRow
  <2>4. ASSUME NEW t \in WebhookMatches(u, ref, ids), pay[t].st # "COMPLETED", Free(p, t),
               NEW pc, Start(p, [Idle EXCEPT !.pc = pc, !.trip = t, !.push = u,
                                             !.ids = ids])
        PROVE  OpenInv'
    <3> DEFINE x == [Idle EXCEPT !.pc = pc, !.trip = t, !.push = u, !.ids = ids]
    <3>1. x.trip = t /\ Start(p, x)
      BY <2>4 DEF Idle
    <3>2. t \in Trips /\ OpenRow(pay[t])
      BY <2>1, <2>4
    <3> HIDE DEF x
    <3>3. QED
      BY <1>1, <2>2, <2>4, <3>1, <3>2
  <2>5. QED
    BY <1>3, <2>3, <2>4 DEF WebhookFind
<1>4. ASSUME NEW p \in Procs, InitiateCreate(p)
      PROVE  OpenInv'
  <2> DEFINE t == h[p].trip
             row == [st |-> "PROCESSING", method |-> h[p].method,
                     phone |-> h[p].phone, checkout |-> None, receipt |-> None,
                     born |-> RowsBorn + 1]
  <2>1. t \in Trips /\ h[p].pc # "idle" /\ h[p].method \in Row!PayMethods
    BY <1>4 DEF InitiateCreate, TypeInv, TypeOK, Busy, HandlerRecords
  <2>2. CASE pay[t].st # "NONE"
    <3>1. Return(p) /\ pay' = pay
      BY <1>4, <2>2 DEF InitiateCreate
    <3>2. QED
      BY <3>1, ReturnKeepsOpen
  <2>3. CASE pay[t].st = "NONE"
    <3>1. Writes(p, row)
      BY <1>4, <2>1, <2>3 DEF InitiateCreate, Writes, KnownRow
    <3>2. pay'[t] = row
      BY <2>1, <3>1 DEF Writes, TypeInv, TypeOK
    <3>3. row.method # "CASH" => OpenRow(row)
      BY <2>1 DEF OpenRow, Row!PayMethods
    <3>4. \/ Return(p)
          \/ Goto(p, "stk.call") /\ row.method # "CASH"
      BY <1>4, <2>3 DEF InitiateCreate
    <3> HIDE DEF row
    <3>5. QED
      BY <2>1, <3>1, <3>2, <3>3, <3>4, ReturnKeepsOpen, GotoKeepsOpen
  <2>4. QED
    BY <2>2, <2>3
<1>5. ASSUME NEW p \in Procs, h[p].pc \in RowPlaces
      PROVE  /\ h[p].trip \in Trips /\ h[p].pc # "idle"
             /\ pay[h[p].trip] \in Rows /\ OpenRow(pay[h[p].trip])
  BY <1>5 DEF RowPlaces, OpenInv, TypeInv, TypeOK, Busy
<1>6. ASSUME NEW p \in Procs, ResendUpdate(p)
      PROVE  OpenInv'
  <2> DEFINE row == [pay[h[p].trip] EXCEPT !.st = "PROCESSING", !.checkout = None,
                                           !.receipt = None]
  <2>1. h[p].pc \in RowPlaces
    BY <1>6 DEF ResendUpdate, RowPlaces
  <2>2. OpenRow(row)
    BY <1>5, <2>1, RowsStayOpen
  <2>3. pay' = [pay EXCEPT ![h[p].trip] = row] /\ Goto(p, "stk.call")
    BY <1>6 DEF ResendUpdate
  <2> HIDE DEF row
  <2>4. Writes(p, row) /\ pay'[h[p].trip] = row
    BY <1>5, <2>1, <2>2, <2>3, OpenIsKnown DEF Writes, TypeInv, TypeOK
  <2>5. QED
    BY <1>5, <2>1, <2>2, <2>3, <2>4, GotoKeepsOpen
<1>7. ASSUME NEW p \in Procs, StkPersist(p)
      PROVE  OpenInv'
  <2> DEFINE row == [pay[h[p].trip] EXCEPT !.checkout = h[p].push]
  <2>1. h[p].pc \in RowPlaces
    BY <1>7 DEF StkPersist, RowPlaces
  <2>2. OpenRow(row)
    BY <1>5, <2>1, RowsStayOpen
  <2>3. pay' = [pay EXCEPT ![h[p].trip] = row] /\ Return(p)
    BY <1>7 DEF StkPersist
  <2> HIDE DEF row
  <2>4. Writes(p, row)
    BY <1>5, <2>1, <2>2, <2>3, OpenIsKnown DEF Writes
  <2>5. QED
    BY <2>3, <2>4, ReturnKeepsOpen
<1>8. ASSUME NEW p \in Procs, StkMarkFailed(p) \/ WebhookFail(p)
      PROVE  OpenInv'
  <2> DEFINE row == [pay[h[p].trip] EXCEPT !.st = "FAILED"]
  <2>1. h[p].pc \in RowPlaces
    BY <1>8 DEF StkMarkFailed, WebhookFail, RowPlaces
  <2>2. OpenRow(row)
    BY <1>5, <2>1, RowsStayOpen
  <2>3. pay' = [pay EXCEPT ![h[p].trip] = row] /\ Return(p)
    BY <1>8 DEF StkMarkFailed, WebhookFail
  <2> HIDE DEF row
  <2>4. Writes(p, row)
    BY <1>5, <2>1, <2>2, <2>3, OpenIsKnown DEF Writes
  <2>5. QED
    BY <2>3, <2>4, ReturnKeepsOpen
<1>9. ASSUME NEW p \in Procs, WebhookSettle(p)
      PROVE  OpenInv'
  <2>1. h[p].pc \in RowPlaces /\ Return(p)
    BY <1>9 DEF WebhookSettle, RowPlaces
  <2>2. PICK c :
            \/ pay' = pay
            \/ pay' = [pay EXCEPT ![h[p].trip] =
                          [@ EXCEPT !.st = "COMPLETED", !.receipt = h[p].push,
                                    !.checkout = c]]
    BY <1>9 DEF WebhookSettle
  <2> DEFINE row == [pay[h[p].trip] EXCEPT !.st = "COMPLETED", !.receipt = h[p].push,
                                           !.checkout = c]
  <2>3. row.st = "COMPLETED"
    BY <1>5, <2>1 DEF Rows
  <2>4. pay' = pay \/ pay' = [pay EXCEPT ![h[p].trip] = row]
    BY <2>2
  <2> HIDE DEF row
  <2>5. pay' = pay \/ Writes(p, row)
    BY <1>5, <2>1, <2>3, <2>4, OpenIsKnown DEF Writes
  <2>6. QED
    BY <2>1, <2>5, ReturnKeepsOpen
<1>10. ASSUME NEW p \in Procs, CashSettle(p)
       PROVE  OpenInv'
  <2> DEFINE t == h[p].trip
             x == [pay[t] EXCEPT !.st = "COMPLETED", !.method = "CASH"]
             y == [x EXCEPT !.born = RowsBorn + 1]
  <2>1. t \in Trips /\ h[p].pc # "idle" /\ pay[t] \in Rows /\ Return(p)
    BY <1>10 DEF CashSettle, TypeInv, TypeOK, Busy
  <2>2. x.st = "COMPLETED" /\ y.st = "COMPLETED"
    BY <2>1 DEF Rows
  <2>3. pay' = pay \/ pay' = [pay EXCEPT ![t] = x] \/ pay' = [pay EXCEPT ![t] = y]
    BY <1>10 DEF CashSettle
  <2> HIDE DEF x, y
  <2>4. pay' = pay \/ Writes(p, x) \/ Writes(p, y)
    BY <2>1, <2>2, <2>3, OpenIsKnown DEF Writes
  <2>5. QED
    BY <2>1, <2>4, ReturnKeepsOpen
<1>11. ASSUME NEW p \in Procs, NEW x, Start(p, x), pay' = pay, h[p].pc \in RowPlaces,
              x.trip = h[p].trip
       PROVE  OpenInv'
  <2>1. Takes(p, x)
    BY <1>5, <1>11 DEF Takes
  <2>2. QED
    BY <1>5, <1>11, <2>1, HandlerKeepsOpen
<1>12. ASSUME NEW p \in Procs, NEW u \in Pushes, StkCall(p, u)
       PROVE  OpenInv'
  <2> DEFINE x == [h[p] EXCEPT !.pc = "stk.persist", !.push = u]
  <2>1. /\ Start(p, x) /\ pay' = pay /\ h[p].pc \in RowPlaces
        /\ x.trip = h[p].trip
    BY <1>12 DEF StkCall, Start, RowPlaces, TypeInv, TypeOK, HandlerRecords
  <2> HIDE DEF x
  <2>2. QED
    BY <1>11, <2>1
<1>13. ASSUME NEW p \in Procs, StkTimeout(p)
       PROVE  OpenInv'
  <2> DEFINE x == [h[p] EXCEPT !.background = TRUE]
  <2>1. /\ Start(p, x) /\ pay' = pay /\ h[p].pc \in RowPlaces
        /\ x.trip = h[p].trip
    BY <1>13 DEF StkTimeout, Start, RowPlaces, TypeInv, TypeOK, HandlerRecords
  <2> HIDE DEF x
  <2>2. QED
    BY <1>11, <2>1
<1>14. ASSUME NEW p \in Procs, StkError(p)
       PROVE  OpenInv'
  <2>1. h[p].pc \in RowPlaces /\ pay' = pay /\ (Return(p) \/ Goto(p, "stk.markFailed"))
    BY <1>14 DEF StkError, RowPlaces
  <2>2. QED
    BY <1>5, <2>1, ReturnKeepsOpen, GotoKeepsOpen
<1>15. ASSUME NEW p \in Procs, StkRejectPhone(p) \/ HandlerFails(p)
       PROVE  OpenInv'
  BY <1>15, ReturnKeepsOpen DEF StkRejectPhone, HandlerFails
<1>16. ASSUME \/ \E u \in Pushes : ProviderTells(u)
              \/ \E t \in Trips : WindowExpires(t)
              \/ UNCHANGED vars
       PROVE  OpenInv'
  <2>1. pay' = pay /\ h' = h
    BY <1>16
       DEF ProviderTells, ProviderDispatches, CustomerPays, CustomerRefuses, ReportsSuccess,
           WindowExpires, vars
  <2>2. QED
    BY <2>1 DEF OpenInv, Serial, KnownRow, OpenRow
<1>17. QED
  BY <1>2, <1>3, <1>4, <1>6, <1>7, <1>8, <1>9, <1>10, <1>12, <1>13, <1>14, <1>15, <1>16
     DEF Next, HandlerStep, WebhookArrives, ProviderTells, Deliveries

(* The owner of the row as this service sees it.                           *)
View == [t \in Trips |-> [st |-> pay[t].st, method |-> pay[t].method]]

(* What a write does to a row is something its owner may do.               *)
LEMMA RowMoves ==
    ASSUME TypeInv, NEW t \in Trips, NEW row, pay' = [pay EXCEPT ![t] = row],
           \/ OpenRow(pay[t]) /\ row.method = pay[t].method
                              /\ row.st \in {"PROCESSING", "FAILED", "COMPLETED"}
           \/ pay[t].st = "NONE" /\ row.st = "PROCESSING" /\ row.method \in Row!PayMethods
           \/ row.st = "COMPLETED" /\ row.method = "CASH"
    PROVE  Row!RowNext
<1>1. View' = [View EXCEPT ![t] = [st |-> row.st, method |-> row.method]]
  <2>1. pay'[t] = row /\ \A s \in Trips \ {t} : pay'[s] = pay[s]
    BY DEF TypeInv, TypeOK
  <2>2. QED
    BY <2>1 DEF View
<1>2. CASE /\ OpenRow(pay[t]) /\ row.method = pay[t].method
           /\ row.st \in {"PROCESSING", "FAILED", "COMPLETED"}
  <2>1. Row!Open(t)
    BY <1>2 DEF OpenRow, Row!Open, Row!Paid
  <2>2. View' = [View EXCEPT ![t].st = row.st]
    BY <1>1, <1>2 DEF View
  <2>3. Row!SettleRow(t) \/ Row!FailRow(t) \/ Row!ResendRow(t)
    BY <1>2, <2>1, <2>2 DEF Row!SettleRow, Row!FailRow, Row!ResendRow, View
  <2>4. QED
    BY <2>3 DEF Row!RowNext, Row!PaymentStep
<1>3. CASE pay[t].st = "NONE" /\ row.st = "PROCESSING" /\ row.method \in Row!PayMethods
  <2>1. Row!CreateRow(t, row.method)
    BY <1>1, <1>3 DEF Row!CreateRow, View
  <2>2. QED
    BY <1>3, <2>1 DEF Row!RowNext, Row!PaymentStep
<1>4. CASE row.st = "COMPLETED" /\ row.method = "CASH"
  <2>1. Row!CollectCash(t)
    BY <1>1, <1>4 DEF Row!CollectCash, View
  <2>2. QED
    BY <2>1 DEF Row!RowNext
<1>5. QED
  BY <1>2, <1>3, <1>4

(* Each step is a step of the row's owner, or leaves status and method.    *)
LEMMA RowStep ==
    ASSUME TypeInv, OpenInv, [Next]_vars
    PROVE  Row!RowNext \/ View' = View
<1> USE DEF At
<1>1. ASSUME NEW p \in Procs, NEW t, t = h[p].trip, h[p].pc \in RowPlaces
      PROVE  t \in Trips /\ pay[t] \in Rows /\ OpenRow(pay[t])
  BY <1>1 DEF RowPlaces, OpenInv, TypeInv, TypeOK, Busy
<1>2. ASSUME NEW p \in Procs, InitiateCreate(p)
      PROVE  pay' = pay \/ Row!RowNext
  <2>1. PICK t \in Trips : t = h[p].trip
    BY <1>2 DEF InitiateCreate, TypeInv, Busy
  <2> DEFINE row == [st |-> "PROCESSING", method |-> h[p].method,
                     phone |-> h[p].phone, checkout |-> None, receipt |-> None,
                     born |-> RowsBorn + 1]
  <2>2. row.st = "PROCESSING" /\ row.method \in Row!PayMethods
    BY DEF TypeInv, TypeOK, HandlerRecords
  <2>3. pay' = pay \/ (pay[t].st = "NONE" /\ pay' = [pay EXCEPT ![t] = row])
    BY <1>2, <2>1 DEF InitiateCreate
  <2> HIDE DEF row
  <2>4. QED
    BY <2>2, <2>3, RowMoves
<1>3. ASSUME NEW p \in Procs, ResendUpdate(p)
      PROVE  Row!RowNext
  <2>1. PICK t : t = h[p].trip
    OBVIOUS
  <2> DEFINE row == [pay[t] EXCEPT !.st = "PROCESSING", !.checkout = None,
                                   !.receipt = None]
  <2>2. t \in Trips /\ pay[t] \in Rows /\ OpenRow(pay[t])
    BY <1>1, <1>3, <2>1 DEF ResendUpdate, RowPlaces
  <2>3. row.st = "PROCESSING" /\ row.method = pay[t].method
    BY <2>2 DEF Rows
  <2>4. pay' = [pay EXCEPT ![t] = row]
    BY <1>3, <2>1 DEF ResendUpdate
  <2> HIDE DEF row
  <2>5. QED
    BY <2>2, <2>3, <2>4, RowMoves
<1>4. ASSUME NEW p \in Procs, StkPersist(p)
      PROVE  View' = View
  <2>1. PICK t : t = h[p].trip
    OBVIOUS
  <2> DEFINE row == [pay[t] EXCEPT !.checkout = h[p].push]
  <2>2. t \in Trips /\ pay[t] \in Rows
    BY <1>1, <1>4, <2>1 DEF StkPersist, RowPlaces
  <2>3. row.st = pay[t].st /\ row.method = pay[t].method
    BY <2>2 DEF Rows
  <2>4. pay' = [pay EXCEPT ![t] = row]
    BY <1>4, <2>1 DEF StkPersist
  <2> HIDE DEF row
  <2>5. \A s \in Trips : pay'[s].st = pay[s].st /\ pay'[s].method = pay[s].method
    BY <2>2, <2>3, <2>4 DEF TypeInv, TypeOK
  <2>6. QED
    BY <2>5 DEF View
<1>5. ASSUME NEW p \in Procs, StkMarkFailed(p) \/ WebhookFail(p)
      PROVE  Row!RowNext
  <2>1. PICK t : t = h[p].trip
    OBVIOUS
  <2> DEFINE row == [pay[t] EXCEPT !.st = "FAILED"]
  <2>2. t \in Trips /\ pay[t] \in Rows /\ OpenRow(pay[t])
    BY <1>1, <1>5, <2>1 DEF StkMarkFailed, WebhookFail, RowPlaces
  <2>3. row.st = "FAILED" /\ row.method = pay[t].method
    BY <2>2 DEF Rows
  <2>4. pay' = [pay EXCEPT ![t] = row]
    BY <1>5, <2>1 DEF StkMarkFailed, WebhookFail
  <2> HIDE DEF row
  <2>5. QED
    BY <2>2, <2>3, <2>4, RowMoves
<1>6. ASSUME NEW p \in Procs, WebhookSettle(p)
      PROVE  pay' = pay \/ Row!RowNext
  <2>1. PICK t : t = h[p].trip
    OBVIOUS
  <2> DEFINE row(c) == [pay[t] EXCEPT !.st = "COMPLETED", !.receipt = h[p].push,
                                      !.checkout = c]
  <2>2. t \in Trips /\ pay[t] \in Rows /\ OpenRow(pay[t])
    BY <1>1, <1>6, <2>1 DEF WebhookSettle, RowPlaces
  <2>3. \A c : row(c).st = "COMPLETED" /\ row(c).method = pay[t].method
    BY <2>2 DEF Rows
  <2>4. pay' = pay \/ \E c : pay' = [pay EXCEPT ![t] = row(c)]
    BY <1>6, <2>1 DEF WebhookSettle
  <2> HIDE DEF row
  <2>5. QED
    BY <2>2, <2>3, <2>4, RowMoves
<1>7. ASSUME NEW p \in Procs, CashSettle(p)
      PROVE  pay' = pay \/ Row!RowNext
  <2>1. PICK t \in Trips : t = h[p].trip
    BY <1>7 DEF CashSettle, TypeInv, Busy
  <2> DEFINE x == [pay[t] EXCEPT !.st = "COMPLETED", !.method = "CASH"]
             y == [x EXCEPT !.born = RowsBorn + 1]
  <2>2. x.st = "COMPLETED" /\ y.st = "COMPLETED" /\ x.method = "CASH" /\ y.method = "CASH"
    BY DEF TypeInv, TypeOK, Rows
  <2>3. pay' = pay \/ pay' = [pay EXCEPT ![t] = x] \/ pay' = [pay EXCEPT ![t] = y]
    BY <1>7, <2>1 DEF CashSettle
  <2> HIDE DEF x, y
  <2>4. QED
    BY <2>2, <2>3, RowMoves
<1>8. CASE pay' = pay
  BY <1>8 DEF View
<1>9. QED
  <2>1. CASE \E p \in Procs : StkPersist(p)
    BY <1>4, <2>1
  <2>2. QED
    BY <1>2, <1>3, <1>5, <1>6, <1>7, <1>8, <2>1, PayWriters

(* The payments service keeps the promise the trips rely on: for any       *)
(* number of trips, prompts and handlers, whatever fails, its steps are    *)
(* those of PaymentRow; with one handler at a time on a payment a          *)
(* COMPLETED row is final.                                                 *)
THEOREM PaymentsImplementRow == Spec => KeepsRowPromise
<1>1. Init => OpenInv
  BY DEF Init, OpenInv, Serial, RowPlaces, KnownRow, NoRow, Idle
<1>2. Init => Row!RowInit
  BY DEF Init, NoRow, Row!RowInit, Row!NoPay
<1>3. TypeInv /\ OpenInv /\ [Next]_vars => OpenInv'
  BY StepOpenInv
<1>4. TypeInv /\ OpenInv /\ [Next]_vars =>
          [Row!RowNext]_([t \in Trips |-> [st |-> pay[t].st, method |-> pay[t].method]])
  BY RowStep DEF View
<1>5. QED
  BY InitTypeInv, StepTypeInv, <1>1, <1>2, <1>3, <1>4, PTL
     DEF Spec, KeepsRowPromise, Row!RowSpec

-----------------------------------------------------------------------------
(* What holds of every body a webhook call may have (LipanaWebhook).       *)

(* The events are sorted into four disjoint kinds.                         *)
LEMMA KindsDiffer ==
    ASSUME NEW ev \in EventNames
    PROVE  /\ ev \in SettlementEvents => ev \notin FailureEvents \cup PendingEvents \cup OtherEvents
           /\ ev \in FailureEvents => ev \notin PendingEvents \cup OtherEvents
           /\ ev \in PendingEvents => ev \notin OtherEvents
BY DEF SettlementEvents, FailureEvents, PendingEvents, OtherEvents

(* Neither failed nor pending is a status that settles.                    *)
LEMMA NoSettlement == "failed" \notin SettlementStatuses /\ "pending" \notin SettlementStatuses
BY DEF SettlementStatuses

(* COMPLETED needs both, a settlement event and a status of success.       *)
THEOREM SettlementNeedsBoth ==
    \A ev \in EventNames, st \in Statuses : SettlesByBoth(ev, st)
BY KindsDiffer, NoSettlement
   DEF SettlesByBoth, Verdict, IsFailed, IsPending, IsSettled

(* Exactly these reports are ignored.                                      *)
THEOREM ExactlyTheseIgnored ==
    \A ev \in EventNames, st \in Statuses : IgnoredReports(ev, st)
BY KindsDiffer, NoSettlement
   DEF IgnoredReports, Verdict, IsFailed, IsPending, IsSettled, EventNames

(* A result code alone decides.                                            *)
THEOREM ResultCodesDecide == \A c \in Calls : ResultCodeDecides(c)
<1> SUFFICES ASSUME NEW c \in Calls, c.status = Absent, c.resultCode.kind = "number"
             PROVE  Verdict(c.event, StatusOf(c)) =
                        IF c.event \in SettlementEvents
                        THEN IF c.resultCode.number = 0 THEN "COMPLETED" ELSE "none"
                        ELSE IF c.event \in FailureEvents \/ c.resultCode.number # 0 THEN "FAILED"
                        ELSE IF c.event \in PendingEvents THEN "PROCESSING" ELSE "none"
  BY DEF ResultCodeDecides
<1>1. c.event \in EventNames
  BY DEF Calls
<1>2. StatusOf(c) = IF c.resultCode.number = 0 THEN "success" ELSE "failed"
  BY DEF StatusOf, RawStatus
<1>3. "success" \in SettlementStatuses /\ "success" # "failed" /\ "success" # "pending"
  BY DEF SettlementStatuses
<1>4. QED
  BY <1>1, <1>2, <1>3, KindsDiffer, NoSettlement
     DEF Verdict, IsFailed, IsPending, IsSettled

(* Some of the first eight numbers are given: one of them is the least.    *)
LEMMA LeastOfFew ==
    ASSUME NEW S, S # {}, S \subseteq 1 .. 8
    PROVE  \E i \in S : \A j \in S : i <= j
<1>1. CASE 1 \in S
  BY <1>1
<1>2. CASE 1 \notin S /\ 2 \in S
  BY <1>2
<1>3. CASE S \cap (1 .. 2) = {} /\ 3 \in S
  BY <1>3
<1>4. CASE S \cap (1 .. 3) = {} /\ 4 \in S
  BY <1>4
<1>5. CASE S \cap (1 .. 4) = {} /\ 5 \in S
  BY <1>5
<1>6. CASE S \cap (1 .. 5) = {} /\ 6 \in S
  BY <1>6
<1>7. CASE S \cap (1 .. 6) = {} /\ 7 \in S
  BY <1>7
<1>8. CASE S \cap (1 .. 7) = {}
  <2>1. \A i \in S : i \in 1 .. 8 /\ i \notin 1 .. 7
    BY <1>8
  <2>2. \A i \in S : i = 8
    BY <2>1
  <2>3. PICK i \in S : TRUE
    OBVIOUS
  <2>4. i = 8 /\ \A j \in S : i <= j
    BY <2>2
  <2>5. QED
    BY <2>4
<1>9. QED
  BY <1>1, <1>2, <1>3, <1>4, <1>5, <1>6, <1>7, <1>8

(* The first id of some fields is an id of the call, or none.              *)
LEMMA FirstIdCarried ==
    ASSUME NEW c \in Calls, NEW fields \in Seq(IdFields), Len(fields) <= 8
    PROVE  FirstId(c, fields) \in {c.ids[f] : f \in IdFields} \cup {NoId}
<1> DEFINE given == {i \in DOMAIN fields : c.ids[fields[i]] # NoId}
           first == CHOOSE i \in given : \A j \in given : i <= j
<1>1. CASE given = {}
  BY <1>1 DEF FirstId
<1>2. CASE given # {}
  <2>1. given \subseteq 1 .. 8
    OBVIOUS
  <2>2. \E i \in given : \A j \in given : i <= j
    BY <1>2, <2>1, LeastOfFew
  <2>3. first \in given
    BY <2>2
  <2>4. fields[first] \in IdFields
    BY <2>3
  <2>5. QED
    BY <1>2, <2>4 DEF FirstId
<1>3. QED
  BY <1>1, <1>2

(* A second delivery finds the row that the first settled.                 *)
THEOREM RepeatsFindTheirRow == \A c \in Calls : RepeatFindsItsRow(c)
<1> SUFFICES ASSUME NEW c \in Calls, Parses(c)
             PROVE  /\ {TransactionId(c), ReceiptOf(c)} \subseteq LookupIds(c)
                    /\ LookupIds(c) \subseteq {c.ids[f] : f \in IdFields} \ {NoId}
  BY DEF RepeatFindsItsRow
<1>1. /\ TransactionId(c) \in {c.ids[f] : f \in IdFields} \cup {NoId}
      /\ CheckoutRequestId(c) \in {c.ids[f] : f \in IdFields} \cup {NoId}
  <2> DEFINE all == <<"transactionId", "mpesaReceiptNumber", "receipt", "id", "nested",
                      "checkout", "merchant", "reference">>
             last == <<"checkout", "merchant", "reference">>
  <2>1. all \in Seq(IdFields) /\ Len(all) <= 8 /\ last \in Seq(IdFields) /\ Len(last) <= 8
    BY DEF IdFields
  <2>2. TransactionId(c) = FirstId(c, all) /\ CheckoutRequestId(c) = FirstId(c, last)
    BY DEF TransactionId, CheckoutRequestId
  <2> HIDE DEF all, last
  <2>3. FirstId(c, all) \in {c.ids[f] : f \in IdFields} \cup {NoId}
    BY <2>1, FirstIdCarried
  <2>4. FirstId(c, last) \in {c.ids[f] : f \in IdFields} \cup {NoId}
    BY <2>1, FirstIdCarried
  <2>5. QED
    BY <2>2, <2>3, <2>4
<1>2. LookupFields \subseteq IdFields /\ "mpesaReceiptNumber" \in LookupFields
  BY DEF LookupFields, IdFields
<1>3. {TransactionId(c), ReceiptOf(c)} \subseteq LookupIds(c)
  BY <1>2 DEF LookupIds, ReceiptOf, Parses
<1>4. LookupIds(c) \subseteq {c.ids[f] : f \in IdFields} \ {NoId}
  BY <1>1, <1>2 DEF LookupIds
<1>5. QED
  BY <1>3, <1>4

(* Whatever the fields hold, the status is one of the known words.         *)
LEMMA StatusKnown == ASSUME NEW c \in Calls PROVE StatusOf(c) \in Statuses
<1>1. RawStatus(c) \in Fields
  BY DEF Calls, RawStatus
<1>2. CASE RawStatus(c).kind = "text"
  <2>1. RawStatus(c).text \in Statuses
    BY <1>1, <1>2 DEF Fields, Absent, Blank, Text, Number
  <2>2. QED
    BY <1>2, <2>1 DEF StatusOf
<1>3. {"success", "failed", "pending"} \subseteq Statuses
  BY DEF Statuses, SettlementStatuses
<1>4. CASE RawStatus(c).kind # "text"
  <2>1. StatusOf(c) \in {"success", "failed", "pending"}
    BY <1>4 DEF StatusOf, WordedStatus
  <2>2. QED
    BY <2>1, <1>3
<1>5. QED
  BY <1>2, <1>4

(* Nothing but a genuine, timely settlement completes a row.               *)
THEOREM OnlySettlementsComplete ==
    \A c \in Calls, row \in {"PROCESSING", "FAILED", "COMPLETED"} :
        CompletesOnlyIfSettled(c, row)
<1> SUFFICES ASSUME NEW c \in Calls, NEW row \in {"PROCESSING", "FAILED", "COMPLETED"}
             PROVE  CompletesOnlyIfSettled(c, row)
  OBVIOUS
<1>1. SettlesByBoth(c.event, StatusOf(c))
  BY SettlementNeedsBoth, StatusKnown DEF Calls
<1>2. QED
  BY <1>1 DEF CompletesOnlyIfSettled, SettlesByBoth, RowAfter
=============================================================================
