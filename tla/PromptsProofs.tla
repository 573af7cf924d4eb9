--------------------------- MODULE PromptsProofs ---------------------------
(***************************************************************************)
(* Proofs about M-Pesa prompts: PaymentGuards, what stands in front of     *)
(* them on the server, for every set of payers and requests and every      *)
(* limit, and TripPage, what the passenger is shown of them, for any       *)
(* number of requests and events in flight.  Their modules share no name.  *)
(***************************************************************************)
EXTENDS PaymentGuardsProperties, TripPageProperties, Integers, Sums, TLAPS

-----------------------------------------------------------------------------
(* The guards                                                              *)

Ages == 0 .. Window \cup {None}
Entries == [count : 1 .. MaxFailed, age : 0 .. FailedWindow + 1]
Breakers == [st : {"CLOSED", "OPEN", "HALF_OPEN"}, failures : 0 .. Threshold,
             age : 0 .. Timeout + 1]
Rows == [st : RowStatuses, method : Methods, phone : Phones]

(* A request at work has a payer.                                          *)
HasPayer(x) == x.pc # "idle" => x.payer \in Payers

TypeInv ==
    /\ TypeOK
    /\ \A q \in Requests : HasPayer(req[q])

Agrees(b) == b.st = "CLOSED" <=> b.failures < Threshold

LEMMA Limits ==
    /\ Window \in Nat /\ Window > 0
    /\ MaxFailed \in Nat /\ MaxFailed > 0
    /\ FailedWindow \in Nat /\ FailedWindow > 0
    /\ Threshold \in Nat /\ Threshold > 0
    /\ Timeout \in Nat /\ Timeout > 0
    /\ None \notin Payers /\ None \notin Nat
  BY GuardsAssumption

LEMMA LeastBounds ==
    ASSUME NEW m \in Nat, NEW n \in Nat
    PROVE  Least(m, n) \in 0 .. n /\ (m >= 1 /\ n >= 1 => Least(m, n) \in 1 .. n)
  BY DEF Least

LEMMA IdleTyped == Idle \in RequestRecords /\ HasPayer(Idle)
  BY DEF Idle, RequestRecords, Places, Methods, Phones, HasPayer

LEMMA NewBreakerTyped == NewBreaker \in Breakers /\ Agrees(NewBreaker)
  BY Limits DEF NewBreaker, Breakers, Agrees

-----------------------------------------------------------------------------
(* The breaker: whatever a step makes of it is a breaker whose state and   *)
(* counter agree.                                                          *)

BreakerKeeps ==
    breaker \in Breakers => /\ breaker' \in Breakers
                            /\ Agrees(breaker) => Agrees(breaker')

LEMMA SameBreaker == breaker' = breaker => BreakerKeeps
  BY DEF BreakerKeeps, Agrees

LEMMA CheckKeeps == CheckCircuitBreaker => BreakerKeeps
  BY DEF CheckCircuitBreaker, BreakerKeeps, Agrees, Breakers

LEMMA SuccessKeeps == breaker' = AfterSuccess => BreakerKeeps
<1> SUFFICES ASSUME breaker' = AfterSuccess, breaker \in Breakers
             PROVE  breaker' \in Breakers /\ Agrees(breaker')
  BY DEF BreakerKeeps
<1> DEFINE x == [breaker EXCEPT !.st = "CLOSED"]
<1>1. x \in Breakers /\ x.st = "CLOSED"
  BY DEF Breakers
<1>2. breaker' = [x EXCEPT !.failures = 0] /\ 0 \in 0 .. Threshold
  BY Limits DEF AfterSuccess
<1> HIDE DEF x
<1>3. breaker' \in Breakers /\ breaker'.st = "CLOSED" /\ breaker'.failures = 0
  BY <1>1, <1>2 DEF Breakers
<1>4. QED
  BY <1>3, Limits DEF Agrees

LEMMA FailureKeeps == breaker' = AfterFailure => BreakerKeeps
<1> SUFFICES ASSUME breaker' = AfterFailure, breaker \in Breakers
             PROVE  breaker' \in Breakers /\ (Agrees(breaker) => Agrees(breaker'))
  BY DEF BreakerKeeps
<1> DEFINE n == Least(breaker.failures + 1, Threshold)
<1>1. breaker.failures \in 0 .. Threshold /\ breaker.st \in {"CLOSED", "OPEN", "HALF_OPEN"}
  BY DEF Breakers
<1>2. n \in 0 .. Threshold /\ (breaker.failures = Threshold => n = Threshold)
  BY <1>1, Limits DEF Least
<1>3. breaker' = [st |-> IF n >= Threshold THEN "OPEN" ELSE breaker.st,
                  failures |-> n, age |-> 0]
  BY DEF AfterFailure
<1> HIDE DEF n
<1>4. breaker' \in Breakers
  BY <1>1, <1>2, <1>3, Limits DEF Breakers
<1>5. ASSUME Agrees(breaker)
      PROVE  Agrees(breaker')
  BY <1>1, <1>2, <1>3, <1>5, Limits DEF Agrees
<1>6. QED
  BY <1>4, <1>5

-----------------------------------------------------------------------------
(* The lock, the window and the requests                                   *)

AttemptsKeep == attempts' \in [Payers -> Entries \cup {None}]
RecentKeeps == recent' \in [Payers -> Ages]
PayKeeps == payment' \in [Payers -> Rows]
RequestsKeep == req' \in [Requests -> RequestRecords] /\ \A q \in Requests : HasPayer(req'[q])

LEMMA EntryIsNotNone == \A e \in Entries : e.count \in Nat \ {0} /\ e.age \in Nat
  BY Limits DEF Entries

LEMMA ClearKeeps ==
    ASSUME TypeInv, NEW u \in Payers, ClearFailedAttempts(u)
    PROVE  AttemptsKeep
  BY DEF TypeInv, TypeOK, ClearFailedAttempts, AttemptsKeep, Entries

LEMMA FraudCheckKeeps ==
    ASSUME TypeInv, NEW u \in Payers, CheckFraudDetection(u)
    PROVE  AttemptsKeep
  BY DEF TypeInv, TypeOK, CheckFraudDetection, AttemptsKeep, Entries

LEMMA RecordKeeps ==
    ASSUME TypeInv, NEW u \in Payers, RecordFailedAttempt(u)
    PROVE  AttemptsKeep
<1> DEFINE before == IF attempts[u] = None \/ attempts[u].age > FailedWindow
                     THEN 0 ELSE attempts[u].count
           e == [count |-> Least(before + 1, MaxFailed), age |-> 0]
<1>1. attempts \in [Payers -> Entries \cup {None}]
  BY DEF TypeInv, TypeOK, Entries
<1>2. before \in Nat
  BY <1>1, EntryIsNotNone
<1> HIDE DEF before
<1>3. Least(before + 1, MaxFailed) \in 1 .. MaxFailed
  BY <1>2, Limits, LeastBounds
<1>4. e \in Entries
  BY <1>3, Limits DEF Entries
<1>5. attempts' = [attempts EXCEPT ![u] = e]
  BY DEF RecordFailedAttempt, before
<1> HIDE DEF e
<1>6. QED
  BY <1>1, <1>4, <1>5 DEF AttemptsKeep

LEMMA RequestKeeps ==
    ASSUME TypeInv, NEW q \in Requests, NEW x \in RequestRecords, HasPayer(x),
           req' = [req EXCEPT ![q] = x]
    PROVE  RequestsKeep
  BY DEF TypeInv, TypeOK, RequestsKeep

LEMMA ReturnKeeps ==
    ASSUME TypeInv, NEW q \in Requests, Return(q)
    PROVE  RequestsKeep
  BY IdleTyped, RequestKeeps DEF Return

LEMMA GotoKeeps ==
    ASSUME TypeInv, NEW q \in Requests, NEW pc \in Places, req[q].pc # "idle", Goto(q, pc)
    PROVE  RequestsKeep
<1> DEFINE x == [req[q] EXCEPT !.pc = pc]
<1>1. req[q] \in RequestRecords /\ HasPayer(req[q])
  BY DEF TypeInv, TypeOK
<1>2. x \in RequestRecords /\ HasPayer(x)
  BY <1>1 DEF RequestRecords, HasPayer
<1>3. req' = [req EXCEPT ![q] = x]
  BY DEF Goto
<1> HIDE DEF x
<1>4. QED
  BY <1>2, <1>3, RequestKeeps

LEMMA RowKeeps ==
    ASSUME TypeInv, NEW u \in Payers, NEW st \in RowStatuses,
           payment' = [payment EXCEPT ![u].st = st]
    PROVE  PayKeeps
  BY DEF TypeInv, TypeOK, PayKeeps, Rows

LEMMA SameKeeps ==
    ASSUME TypeInv
    PROVE  /\ attempts' = attempts => AttemptsKeep
           /\ recent' = recent => RecentKeeps
           /\ payment' = payment => PayKeeps
           /\ req' = req => RequestsKeep
  BY DEF TypeInv, TypeOK, AttemptsKeep, RecentKeeps, PayKeeps, RequestsKeep,
         Entries, Ages, Rows

-----------------------------------------------------------------------------
(* Every step keeps all of it; streak, the history, stays within bounds.   *)

Keeps == BreakerKeeps /\ AttemptsKeep /\ RecentKeeps /\ PayKeeps /\ RequestsKeep

LEMMA TypeInvUnfolds ==
    ASSUME TypeInv
    PROVE  /\ recent \in [Payers -> Ages]
           /\ attempts \in [Payers -> Entries \cup {None}]
           /\ breaker \in Breakers
           /\ payment \in [Payers -> Rows]
           /\ req \in [Requests -> RequestRecords]
           /\ \A q \in Requests : req[q] \in RequestRecords
                                 /\ (req[q].pc # "idle" => req[q].payer \in Payers)
  BY DEF TypeInv, TypeOK, Ages, Entries, Breakers, Rows, HasPayer

LEMMA ArrivalKeeps ==
    ASSUME TypeInv, NEW u \in Payers, RequestArrives(u)
    PROVE  Keeps /\ streak' = streak
<1>0. /\ attempts' = attempts => AttemptsKeep
      /\ recent' = recent => RecentKeeps
      /\ payment' = payment => PayKeeps
      /\ req' = req => RequestsKeep
  BY SameKeeps
<1>1. CASE InitiateBlocked(u)
  BY <1>0, <1>1, SameBreaker DEF InitiateBlocked, vars, Keeps
<1>2. CASE InitiateForbidden(u)
  BY <1>0, <1>2, CheckKeeps DEF InitiateForbidden, Keeps
<1>3. ASSUME NEW q \in Requests, NEW m \in Methods, NEW phone \in Phones,
             InitiateStart(q, u, m, phone)
      PROVE  Keeps /\ streak' = streak
  <2> DEFINE x == [Idle EXCEPT !.pc = "trip", !.payer = u, !.method = m,
                               !.phone = phone, !.counts = TRUE]
  <2>1. x \in RequestRecords /\ HasPayer(x)
    BY DEF Idle, RequestRecords, Places, HasPayer
  <2>2. req' = [req EXCEPT ![q] = x]
    BY <1>3 DEF InitiateStart
  <2> HIDE DEF x
  <2>3. RequestsKeep
    BY <2>1, <2>2, RequestKeeps
  <2>4. QED
    BY <1>0, <1>3, <2>3, CheckKeeps, FraudCheckKeeps DEF InitiateStart, Keeps
<1>4. ASSUME NEW q \in Requests, ResendStart(q, u)
      PROVE  Keeps /\ streak' = streak
  <2> DEFINE x == [Idle EXCEPT !.pc = "update", !.payer = u, !.phone = payment[u].phone]
  <2>1. payment[u].phone \in Phones
    BY TypeInvUnfolds DEF Rows
  <2>2. x \in RequestRecords /\ HasPayer(x)
    BY <2>1 DEF Idle, RequestRecords, Places, Methods, HasPayer
  <2>3. req' = [req EXCEPT ![q] = x]
    BY <1>4 DEF ResendStart
  <2> HIDE DEF x
  <2>4. RequestsKeep
    BY <2>2, <2>3, RequestKeeps
  <2>5. recent' = [recent EXCEPT ![u] = 0] /\ 0 \in Ages
    BY <1>4, Limits DEF ResendStart, Ages
  <2>6. RecentKeeps
    BY <2>5, TypeInvUnfolds DEF RecentKeeps
  <2>7. QED
    BY <1>0, <1>4, <2>4, <2>6, CheckKeeps, FraudCheckKeeps DEF ResendStart, Keeps
<1>5. QED
  BY <1>1, <1>2, <1>3, <1>4 DEF RequestArrives, InitiateBlocked, InitiateForbidden, vars

LEMMA HandlerKeeps ==
    ASSUME TypeInv, NEW q \in Requests, RequestStep(q)
    PROVE  Keeps /\ streak' \in 0 .. Threshold
<1> DEFINE u == req[q].payer
<1>0. /\ attempts' = attempts => AttemptsKeep
      /\ recent' = recent => RecentKeeps
      /\ payment' = payment => PayKeeps
      /\ req' = req => RequestsKeep
  BY SameKeeps
<1>a. streak \in 0 .. Threshold
  BY DEF TypeInv, TypeOK
<1>b. req[q].pc # "idle" => u \in Payers
  BY TypeInvUnfolds
<1>c. ASSUME NEW pc \in Places, req[q].pc # "idle", Goto(q, pc)
      PROVE  RequestsKeep
  BY <1>c, GotoKeeps
<1>d. {"create", "push", "markFailed"} \subseteq Places
  BY DEF Places
<1>e. FailPush(q) /\ At(q, "push") => RequestsKeep
  BY <1>c, <1>d, ReturnKeeps DEF FailPush, At
<1>f. LongerStreak => streak' \in 0 .. Threshold
  BY <1>a, Limits, LeastBounds DEF LongerStreak
<1>1. CASE InitiateBadTrip(q)
  BY <1>0, <1>1, <1>a, <1>b, SameBreaker, RecordKeeps, ReturnKeeps
     DEF InitiateBadTrip, At, Keeps
<1>2. CASE InitiateExisting(q)
  BY <1>0, <1>2, <1>a, SameBreaker, ReturnKeeps DEF InitiateExisting, Keeps
<1>3. CASE InitiateDuplicate(q)
  BY <1>0, <1>3, <1>a, <1>b, SameBreaker, RecordKeeps, ReturnKeeps
     DEF InitiateDuplicate, At, Keeps
<1>4. CASE InitiateRecord(q)
  <2>1. u \in Payers /\ RequestsKeep
    BY <1>4, <1>b, <1>c, <1>d DEF InitiateRecord, At
  <2>2. recent' = [recent EXCEPT ![u] = 0] /\ 0 \in Ages
    BY <1>4, Limits DEF InitiateRecord, Ages
  <2>3. RecentKeeps
    BY <2>1, <2>2, TypeInvUnfolds DEF RecentKeeps
  <2>4. QED
    BY <1>0, <1>4, <1>a, <2>1, <2>3, SameBreaker DEF InitiateRecord, Keeps
<1>5. CASE InitiateRefusedByIndex(q)
  BY <1>0, <1>5, <1>a, SameBreaker, ReturnKeeps DEF InitiateRefusedByIndex, Keeps
<1>6. CASE InitiateCreate(q)
  <2> DEFINE row == [st |-> "PROCESSING", method |-> req[q].method, phone |-> req[q].phone]
  <2>1. u \in Payers /\ row \in Rows
    BY <1>6, <1>b, TypeInvUnfolds DEF InitiateCreate, At, Rows, RowStatuses, RequestRecords
  <2>2. payment' = [payment EXCEPT ![u] = row]
    BY <1>6 DEF InitiateCreate
  <2> HIDE DEF row
  <2>3. PayKeeps
    BY <2>1, <2>2, TypeInvUnfolds DEF PayKeeps
  <2>4. RequestsKeep
    BY <1>6, <1>c, <1>d, ReturnKeeps DEF InitiateCreate, At
  <2>5. AttemptsKeep
    BY <1>0, <1>6, <2>1, ClearKeeps, RecordKeeps DEF InitiateCreate
  <2>6. QED
    BY <1>0, <1>6, <1>a, <2>3, <2>4, <2>5, SameBreaker DEF InitiateCreate, Keeps
<1>7. CASE ResendUpdate(q)
  <2>1. u \in Payers /\ RequestsKeep
    BY <1>7, <1>b, <1>c, <1>d DEF ResendUpdate, At
  <2>2. PayKeeps
    BY <1>7, <2>1, RowKeeps DEF ResendUpdate, RowStatuses
  <2>3. QED
    BY <1>0, <1>7, <1>a, <2>1, <2>2, SameBreaker DEF ResendUpdate, Keeps
<1>8. CASE PushMalformedPhone(q)
  BY <1>0, <1>8, <1>a, <1>b, SameBreaker, RecordKeeps, ReturnKeeps
     DEF PushMalformedPhone, At, Keeps
<1>9. CASE PushSucceeds(q)
  BY <1>0, <1>9, <1>b, Limits, SuccessKeeps, ClearKeeps, ReturnKeeps
     DEF PushSucceeds, Pushing, At, Keeps
<1>10. CASE PushFails(q)
  BY <1>0, <1>10, <1>e, <1>f, SameBreaker DEF PushFails, Pushing, Keeps
<1>11. CASE PushAnswerUnusable(q)
  BY <1>0, <1>11, <1>e, <1>f, FailureKeeps DEF PushAnswerUnusable, Pushing, Keeps
<1>12. CASE PushTimesOut(q)
  <2> DEFINE x == [req[q] EXCEPT !.background = TRUE]
  <2>1. x \in RequestRecords /\ HasPayer(x)
    BY TypeInvUnfolds DEF RequestRecords, HasPayer
  <2>2. req' = [req EXCEPT ![q] = x]
    BY <1>12 DEF PushTimesOut
  <2> HIDE DEF x
  <2>3. RequestsKeep
    BY <2>1, <2>2, RequestKeeps
  <2>4. QED
    BY <1>0, <1>12, <1>a, <2>3, SameBreaker DEF PushTimesOut, Keeps
<1>13. CASE MarkFailed(q)
  <2>1. PayKeeps
    BY <1>0, <1>13, <1>b, RowKeeps DEF MarkFailed, At, RowStatuses
  <2>2. QED
    BY <1>0, <1>13, <1>a, <2>1, FailureKeeps, ReturnKeeps DEF MarkFailed, Keeps
<1>14. QED
  BY <1>1, <1>2, <1>3, <1>4, <1>5, <1>6, <1>7, <1>8, <1>9, <1>10, <1>11, <1>12, <1>13
     DEF RequestStep

LEMMA RestartKeeps == TypeInv /\ Restart => Keeps /\ streak' \in 0 .. Threshold
<1> SUFFICES ASSUME TypeInv, Restart
             PROVE  Keeps /\ streak' \in 0 .. Threshold
  OBVIOUS
<1>1. BreakerKeeps
  BY NewBreakerTyped DEF Restart, BreakerKeeps
<1>2. AttemptsKeep /\ RecentKeeps
  BY DEF Restart, AttemptsKeep, RecentKeeps, Ages
<1>3. PayKeeps
  BY SameKeeps DEF Restart
<1>4. RequestsKeep
  BY IdleTyped DEF Restart, RequestsKeep
<1>5. streak' \in 0 .. Threshold
  BY Limits DEF Restart
<1>6. QED
  BY <1>1, <1>2, <1>3, <1>4, <1>5 DEF Keeps

LEMMA TickKeeps == TypeInv /\ Tick => Keeps /\ streak' = streak
<1> SUFFICES ASSUME TypeInv, Tick
             PROVE  Keeps /\ streak' = streak
  OBVIOUS
<1>1. BreakerKeeps
  <2>1. ASSUME breaker \in Breakers
        PROVE  Least(breaker.age + 1, Timeout + 1) \in 0 .. Timeout + 1
    <3>1. breaker.age \in 0 .. Timeout + 1
      BY <2>1 DEF Breakers
    <3>2. breaker.age + 1 \in Nat /\ Timeout + 1 \in Nat
      BY <3>1, Limits
    <3>3. QED
      BY <3>2, LeastBounds
  <2>2. breaker' = [breaker EXCEPT !.age = Least(breaker.age + 1, Timeout + 1)]
    BY DEF Tick
  <2> DEFINE n == Least(breaker.age + 1, Timeout + 1)
  <2>3. ASSUME breaker \in Breakers
        PROVE  breaker' = [breaker EXCEPT !.age = n] /\ n \in 0 .. Timeout + 1
    BY <2>1, <2>2, <2>3
  <2> HIDE DEF n
  <2>4. ASSUME breaker \in Breakers
        PROVE  breaker' = [st |-> breaker.st, failures |-> breaker.failures, age |-> n]
    BY <2>3, <2>4 DEF Breakers
  <2>5. QED
    BY <2>3, <2>4 DEF BreakerKeeps, Breakers, Agrees
<1>2. AttemptsKeep
  <2>1. ASSUME NEW u \in Payers, attempts[u] # None
        PROVE  attempts'[u] \in Entries
    <3> DEFINE n == Least(attempts[u].age + 1, FailedWindow + 1)
    <3>1. attempts[u] \in Entries
      BY <2>1, TypeInvUnfolds
    <3>2. n \in 0 .. FailedWindow + 1
      <4>1. attempts[u].age \in 0 .. FailedWindow + 1
        BY <3>1 DEF Entries
      <4>2. attempts[u].age + 1 \in Nat /\ FailedWindow + 1 \in Nat
        BY <4>1, Limits
      <4>3. QED
        BY <4>2, LeastBounds
    <3>3. attempts'[u] = [attempts[u] EXCEPT !.age = n]
      BY <2>1 DEF Tick
    <3> HIDE DEF n
    <3>4. QED
      BY <3>1, <3>2, <3>3 DEF Entries
  <2>2. /\ attempts' = [u \in Payers |-> attempts'[u]]
        /\ \A u \in Payers : attempts[u] = None => attempts'[u] = None
    BY DEF Tick
  <2>3. QED
    BY <2>1, <2>2 DEF AttemptsKeep
<1>3. RecentKeeps
  <2>1. ASSUME NEW a \in 0 .. Window
        PROVE  Least(a + 1, Window) \in 0 .. Window
    BY Limits, LeastBounds
  <2>2. recent' = [u \in Payers |-> IF recent[u] = None THEN None
                                    ELSE Least(recent[u] + 1, Window)]
    BY DEF Tick
  <2>3. QED
    BY <2>1, <2>2, TypeInvUnfolds DEF RecentKeeps, Ages
<1>4. PayKeeps /\ RequestsKeep /\ streak' = streak
  BY SameKeeps DEF Tick
<1>5. QED
  BY <1>1, <1>2, <1>3, <1>4 DEF Keeps

LEMMA StepKeeps == TypeInv /\ [Next]_vars => Keeps /\ streak' \in 0 .. Threshold
<1> SUFFICES ASSUME TypeInv, [Next]_vars
             PROVE  Keeps /\ streak' \in 0 .. Threshold
  OBVIOUS
<1>0. streak \in 0 .. Threshold
  BY DEF TypeInv, TypeOK
<1>1. ASSUME NEW u \in Payers, NEW st \in {"FAILED", "COMPLETED"}, Settle(u, st)
      PROVE  Keeps /\ streak' = streak
  <2>1. PayKeeps
    BY <1>1, RowKeeps DEF Settle, RowStatuses
  <2>2. QED
    BY <1>1, <2>1, SameBreaker, SameKeeps DEF Settle, Keeps
<1>2. CASE UNCHANGED vars
  BY <1>0, <1>2, SameBreaker, SameKeeps DEF vars, Keeps
<1>3. QED
  BY <1>0, <1>1, <1>2, ArrivalKeeps, HandlerKeeps, RestartKeeps, TickKeeps DEF Next

-----------------------------------------------------------------------------
LEMMA InitTypeInv == Init => TypeInv
<1> SUFFICES ASSUME Init
             PROVE  TypeInv
  OBVIOUS
<1>1. req \in [Requests -> RequestRecords] /\ \A q \in Requests : HasPayer(req[q])
  BY IdleTyped DEF Init
<1>2. breaker \in Breakers
  BY NewBreakerTyped DEF Init
<1>3. payment \in [Payers -> Rows]
  BY DEF Init, NoRow, Rows, RowStatuses, Methods, Phones
<1>4. QED
  BY <1>1, <1>2, <1>3, Limits DEF Init, TypeInv, TypeOK, Breakers, Rows

LEMMA StepTypeInv == TypeInv /\ [Next]_vars => TypeInv'
  BY StepKeeps, TypeInvUnfolds
     DEF Keeps, BreakerKeeps, AttemptsKeep, RecentKeeps, PayKeeps, RequestsKeep,
         TypeInv, TypeOK, Ages, Entries, Breakers, Rows

(* The tables of the guards, the rows and the requests keep their types,   *)
(* for every number of payers and requests and whatever the limits are.    *)
THEOREM TypeCorrect == Spec => []TypeOK
<1>1. TypeInv => TypeOK
  BY DEF TypeInv
<1>2. QED
  BY <1>1, InitTypeInv, StepTypeInv, PTL DEF Spec

(* The breaker is closed exactly while fewer failures than the threshold's *)
(* have been counted, in whatever order successes and failures report in.  *)
THEOREM BreakerAlwaysAgrees == Spec => []BreakerAgrees
<1> DEFINE Inv == TypeInv /\ Agrees(breaker)
<1>1. Init => Inv
  BY NewBreakerTyped, InitTypeInv DEF Init
<1>2. Inv /\ [Next]_vars => Inv'
  BY StepKeeps, StepTypeInv, TypeInvUnfolds DEF Keeps, BreakerKeeps
<1>3. Inv => BreakerAgrees
  BY DEF Agrees, BreakerAgrees
<1>4. QED
  BY <1>1, <1>2, <1>3, PTL DEF Spec

-----------------------------------------------------------------------------
(* The trip page                                                           *)

(* A request that asks for a prompt, or for whether there was one.         *)
IsPrompt(r) == r.for \in {"initiate", "resend", "recover"}

HasPrompt(q) == \E i \in DOMAIN q : IsPrompt(q[i])
OnePrompt(q) == \A i, j \in DOMAIN q : IsPrompt(q[i]) /\ IsPrompt(q[j]) => i = j

(* Answered in the order of asking, and blank until then.                  *)
Blank(r) == r.at = "sent" => r.pay = "NONE"
InTurn(q) ==
    /\ \A i, j \in DOMAIN q : i < j /\ q[i].at = "sent" => q[j].at # "ok"
    /\ \A i \in DOMAIN q : Blank(q[i])

(* A read that found a failure has a prompt behind it.                     *)
Behind(q, i) == \E j \in DOMAIN q : i <= j /\ IsPrompt(q[j])
FailuresAreOld(q) ==
    \A i \in DOMAIN q : q[i].at = "ok" /\ q[i].pay = "FAILED" => Behind(q, i)

(* At most one prompt is being asked for, and while it is the page says    *)
(* so.                                                                     *)
QueueInv == OnePrompt(reqs) /\ InTurn(reqs) /\ (HasPrompt(reqs) => page.paying)

(* The last prompt is still open.                                          *)
Prompted == pay[Trip].st = "PROCESSING"

(* No failure is on the page, nor put off.                                 *)
Calm(p) == p.pay # "FAILED" /\ ~p.failedDelay

PageEvents == [to : SUBSET ToBoth, st : Row!PayStatuses]

(* The parts of PageTypeOK that the argument needs, with the queues as     *)
(* sequences.                                                              *)
PageShapes ==
    /\ trip \in Statuses
    /\ pay \in [{Trip} -> Row!PayRows]
    /\ page \in Pages
    /\ events \in Seq(PageEvents)
    /\ reqs \in Seq(PageRequests)

(* While the last prompt is open, no failure is on the page or on its way  *)
(* to it, unless a prompt that is still to be confirmed comes behind it.   *)
PromptInv ==
    /\ PageShapes
    /\ QueueInv
    /\ Prompted => FailuresAreOld(reqs)
    /\ Prompted /\ ~page.paying /\ ~page.refused => Calm(page)

-----------------------------------------------------------------------------
(* A request whose reply has been read leaves the queue.                   *)
LEMMA Removed ==
    ASSUME NEW S, NEW s \in Seq(S), NEW i \in DOMAIN s, NEW z, z = RemoveAt(s, i)
    PROVE  /\ z \in Seq(S) /\ DOMAIN z = 1 .. Len(s) - 1
           /\ \A k \in DOMAIN z : /\ k \in DOMAIN s /\ k + 1 \in DOMAIN s
                                  /\ z[k] = IF k < i THEN s[k] ELSE s[k + 1]
<1>1. z = Cut(s, i)
  BY DEF Cut, RemoveAt
<1>2. QED
  BY <1>1, WithoutOne

(* A request is put at the end of the queue.                               *)
LEMMA QueueAsked ==
    ASSUME NEW q \in Seq(PageRequests), NEW r \in PageRequests, r.at = "sent", Blank(r),
           OnePrompt(q), InTurn(q), ~(HasPrompt(q) /\ IsPrompt(r)),
           NEW z, z = Append(q, r)
    PROVE  /\ z \in Seq(PageRequests) /\ OnePrompt(z) /\ InTurn(z)
           /\ HasPrompt(z) => HasPrompt(q) \/ IsPrompt(r)
           /\ FailuresAreOld(q) \/ IsPrompt(r) => FailuresAreOld(z)
<1>1. /\ z \in Seq(PageRequests) /\ Len(z) = Len(q) + 1 /\ z[Len(q) + 1] = r
      /\ \A k \in DOMAIN q : z[k] = q[k]
  BY Appended
<1>2. /\ DOMAIN q = 1 .. Len(q) /\ DOMAIN z = 1 .. Len(q) + 1 /\ Len(q) \in Nat
  BY <1>1, PlacesOf
<1>3. \A k \in DOMAIN z : k \in DOMAIN q \/ k = Len(q) + 1
  BY <1>2
<1>4. OnePrompt(z) /\ (HasPrompt(z) => HasPrompt(q) \/ IsPrompt(r))
  BY <1>1, <1>3 DEF OnePrompt, HasPrompt
<1>5. InTurn(z)
  BY <1>1, <1>2, <1>3 DEF InTurn
<1>6. ASSUME FailuresAreOld(q) \/ IsPrompt(r) PROVE FailuresAreOld(z)
  <2> SUFFICES ASSUME NEW i \in DOMAIN z, z[i].at = "ok", z[i].pay = "FAILED"
               PROVE  Behind(z, i)
    BY DEF FailuresAreOld
  <2>1. i \in DOMAIN q /\ i <= Len(q) + 1 /\ Len(q) + 1 \in DOMAIN z
    BY <1>1, <1>2, <1>3
  <2>2. CASE IsPrompt(r)
    BY <1>1, <2>1, <2>2 DEF Behind
  <2>3. CASE FailuresAreOld(q)
    <3>1. PICK j \in DOMAIN q : i <= j /\ IsPrompt(q[j])
      BY <1>1, <2>1, <2>3 DEF FailuresAreOld, Behind
    <3>2. j \in DOMAIN z
      BY <1>2
    <3>3. QED
      BY <1>1, <3>1, <3>2 DEF Behind
  <2>4. QED
    BY <1>6, <2>2, <2>3
<1>7. QED
  BY <1>1, <1>4, <1>5, <1>6

(* The first request leaves it, when its reply is read.                    *)
LEMMA QueueUsed ==
    ASSUME NEW q \in Seq(PageRequests), NEW i \in DOMAIN q, i = 1,
           OnePrompt(q), InTurn(q), NEW z, z = RemoveAt(q, i)
    PROVE  /\ z \in Seq(PageRequests) /\ OnePrompt(z) /\ InTurn(z)
           /\ HasPrompt(z) => HasPrompt(q) /\ ~IsPrompt(q[i])
           /\ FailuresAreOld(q) => FailuresAreOld(z)
<1>1. /\ z \in Seq(PageRequests) /\ DOMAIN z = 1 .. Len(q) - 1
      /\ \A k \in DOMAIN z : k + 1 \in DOMAIN q /\ z[k] = q[k + 1]
  <2>1. /\ z \in Seq(PageRequests) /\ DOMAIN z = 1 .. Len(q) - 1
        /\ \A k \in DOMAIN z : /\ k \in DOMAIN q /\ k + 1 \in DOMAIN q
                               /\ z[k] = IF k < i THEN q[k] ELSE q[k + 1]
    BY Removed
  <2>2. \A k \in DOMAIN z : ~(k < i)
    BY <2>1
  <2>3. QED
    BY <2>1, <2>2
<1>2. /\ DOMAIN q = 1 .. Len(q) /\ Len(q) \in Nat
      /\ \A k \in DOMAIN z : k \in Nat /\ k + 1 # i
  BY <1>1, PlacesOf
<1>3. OnePrompt(z)
  <2> SUFFICES ASSUME NEW k \in DOMAIN z, NEW l \in DOMAIN z, IsPrompt(z[k]), IsPrompt(z[l])
               PROVE  k = l
    BY DEF OnePrompt
  <2>1. k + 1 = l + 1
    BY <1>1 DEF OnePrompt
  <2>2. QED
    BY <1>2, <2>1
<1>4. InTurn(z)
  <2>1. \A k \in DOMAIN z : Blank(z[k])
    BY <1>1 DEF InTurn
  <2> SUFFICES ASSUME NEW k \in DOMAIN z, NEW l \in DOMAIN z, k < l, z[k].at = "sent"
               PROVE  z[l].at # "ok"
    BY <2>1 DEF InTurn
  <2>2. k + 1 < l + 1
    BY <1>2
  <2>3. QED
    BY <1>1, <2>2 DEF InTurn
<1>5. HasPrompt(z) => HasPrompt(q) /\ ~IsPrompt(q[i])
  BY <1>1, <1>2 DEF HasPrompt, OnePrompt
<1>6. ASSUME FailuresAreOld(q) PROVE FailuresAreOld(z)
  <2> SUFFICES ASSUME NEW k \in DOMAIN z, z[k].at = "ok", z[k].pay = "FAILED"
               PROVE  Behind(z, k)
    BY DEF FailuresAreOld
  <2>1. PICK j \in DOMAIN q : k + 1 <= j /\ IsPrompt(q[j])
    BY <1>1, <1>6 DEF FailuresAreOld, Behind
  <2>2. j - 1 \in DOMAIN z /\ k <= j - 1 /\ j - 1 + 1 = j
    BY <1>1, <1>2, <2>1
  <2>3. z[j - 1] = q[j]
    BY <1>1, <2>2
  <2>4. QED
    BY <2>1, <2>2, <2>3 DEF Behind
<1>7. QED
  BY <1>1, <1>3, <1>4, <1>5, <1>6

(* A request is answered, or fails.                                        *)
LEMMA QueueAnswered ==
    ASSUME NEW q \in Seq(PageRequests), NEW i \in DOMAIN q, NEW a \in PageRequests,
           a.for = q[i].for, a.at # "sent",
           a.at = "ok" => \A j \in 1 .. i - 1 : q[j].at # "sent",
           OnePrompt(q), InTurn(q), NEW z, z = [q EXCEPT ![i] = a]
    PROVE  /\ z \in Seq(PageRequests) /\ OnePrompt(z) /\ InTurn(z)
           /\ HasPrompt(z) => HasPrompt(q)
           /\ FailuresAreOld(q) /\ (a.at = "ok" /\ a.pay = "FAILED" => IsPrompt(a))
                => FailuresAreOld(z)
           /\ q[i].at = "sent" /\ IsPrompt(q[i]) => FailuresAreOld(z)
<1>1. /\ z \in Seq(PageRequests) /\ DOMAIN z = DOMAIN q /\ z[i] = a
      /\ \A k \in DOMAIN q : k # i => z[k] = q[k]
  BY Written
<1>2. DOMAIN q = 1 .. Len(q) /\ Len(q) \in Nat
  BY PlacesOf
<1>3. \A k \in DOMAIN q : IsPrompt(z[k]) <=> IsPrompt(q[k])
  BY <1>1 DEF IsPrompt
<1>4. OnePrompt(z) /\ (HasPrompt(z) => HasPrompt(q))
  BY <1>1, <1>3 DEF OnePrompt, HasPrompt
<1>5. InTurn(z)
  <2>0. \A k \in DOMAIN q : Blank(z[k])
    BY <1>1 DEF InTurn, Blank
  <2> SUFFICES ASSUME NEW k \in DOMAIN q, NEW l \in DOMAIN q, k < l, z[k].at = "sent"
               PROVE  z[l].at # "ok"
    BY <1>1, <2>0 DEF InTurn
  <2>1. k # i /\ q[k].at = "sent"
    BY <1>1
  <2>2. l = i => k \in 1 .. i - 1
    BY <1>2
  <2>3. QED
    BY <1>1, <2>1, <2>2 DEF InTurn
<1>6. \A k \in DOMAIN q : Behind(q, k) => Behind(z, k)
  BY <1>1, <1>3 DEF Behind
<1>7. ASSUME FailuresAreOld(q), a.at = "ok" /\ a.pay = "FAILED" => IsPrompt(a)
      PROVE  FailuresAreOld(z)
  <2> SUFFICES ASSUME NEW k \in DOMAIN q, z[k].at = "ok", z[k].pay = "FAILED"
               PROVE  Behind(z, k)
    BY <1>1 DEF FailuresAreOld
  <2>1. CASE k # i
    BY <1>1, <1>6, <1>7, <2>1 DEF FailuresAreOld
  <2>2. CASE k = i
    <3>1. i <= i
      BY <1>2
    <3>2. QED
      BY <1>1, <1>7, <2>2, <3>1 DEF Behind
  <2>3. QED
    BY <2>1, <2>2
<1>8. ASSUME q[i].at = "sent", IsPrompt(q[i]) PROVE FailuresAreOld(z)
  <2> SUFFICES ASSUME NEW k \in DOMAIN q, z[k].at = "ok", z[k].pay = "FAILED"
               PROVE  Behind(z, k)
    BY <1>1 DEF FailuresAreOld
  <2>1. ~(i < k)
    BY <1>1, <1>2, <1>8 DEF InTurn
  <2>2. k <= i
    BY <1>2, <2>1
  <2>3. QED
    BY <1>1, <1>3, <1>8, <2>2 DEF Behind
<1>9. QED
  BY <1>1, <1>4, <1>5, <1>7, <1>8

-----------------------------------------------------------------------------
(* What the component's helpers leave of a page.                           *)
Alike(p, q) == q.paying = p.paying /\ q.refused = p.refused

LEMMA TripShown ==
    ASSUME NEW p \in Pages, NEW r \in PageRequests
    PROVE  /\ WithTrip(p, r) \in Pages /\ Alike(p, WithTrip(p, r))
           /\ Calm(p) => Calm(WithTrip(p, r))
  BY DEF WithTrip, Alike, Calm, Pages, PageRequests

LEMMA PayShown ==
    ASSUME NEW p \in Pages, NEW r \in PageRequests
    PROVE  /\ WithPay(p, r) \in Pages /\ Alike(p, WithPay(p, r))
           /\ Calm(p) /\ r.pay # "FAILED" => Calm(WithPay(p, r))
  BY DEF WithPay, Alike, Calm, Pages, PageRequests, Row!PayStatuses

LEMMA PolledShown ==
    ASSUME NEW p \in Pages
    PROVE  /\ WithRidePoll(p) \in Pages /\ Alike(p, WithRidePoll(p))
           /\ Calm(p) => Calm(WithRidePoll(p))
<1>1. 0 \in 0 .. MaxRidePolls
  BY TripPageAssumption
<1>2. QED
  BY <1>1 DEF WithRidePoll, Alike, Calm, Pages

LEMMA TerminalShown ==
    ASSUME NEW p \in Pages, NEW st \in Row!PayStatuses
    PROVE  /\ WithTerminal(p, st) \in Pages /\ Alike(p, WithTerminal(p, st))
           /\ Calm(p) /\ st # "FAILED" => Calm(WithTerminal(p, st))
<1>1. CASE p.pay = st
  BY <1>1 DEF WithTerminal, Alike
<1>2. CASE p.pay # st /\ Deferred(p, st)
  BY <1>2 DEF WithTerminal, Deferred, Alike, Pages
<1>3. CASE p.pay # st /\ ~Deferred(p, st)
  <2> DEFINE put == p.failedDelay /\ st = "FAILED"
             offered == st = "FAILED"
             shown == IF p.pay = "NONE" THEN p.pay ELSE st
  <2>1. /\ put \in BOOLEAN /\ offered \in BOOLEAN /\ shown \in Row!PayStatuses
        /\ st # "FAILED" => ~put /\ (p.pay # "FAILED" => shown # "FAILED")
    BY DEF Row!PayStatuses
  <2>2. WithTerminal(p, st) = [p EXCEPT !.pay = shown, !.grace = FALSE,
                                        !.failedDelay = put, !.resend = offered]
    BY <1>3 DEF WithTerminal
  <2> HIDE DEF put, offered, shown
  <2>3. QED
    BY <2>1, <2>2 DEF Alike, Calm, Pages
<1>4. QED
  BY <1>1, <1>2, <1>3

LEMMA PromptShown ==
    ASSUME NEW p \in Pages
    PROVE  WithPrompt(p) \in Pages /\ Calm(WithPrompt(p))
  BY DEF WithPrompt, Calm, Pages, Row!PayStatuses

(* What the page asks for is a request, and blank.                         *)
LEMMA Asking ==
    ASSUME NEW what \in {"init", "reconcile", "tick", "poll", "after", "cash", "refresh",
                         "initiate", "resend", "recover", "cancel", "rate"},
           NEW claim \in Row!PayStatuses, claim # "PROCESSING"
    PROVE  /\ Request(what, claim) \in PageRequests /\ Request(what, claim).at = "sent"
           /\ Blank(Request(what, claim)) /\ Request(what, claim).for = what
           /\ Get(what) \in PageRequests /\ Get(what).at = "sent" /\ Blank(Get(what))
           /\ Get(what).for = what
  BY DEF Blank, Request, Get, PageRequests, Row!PayStatuses, Terminal

(* The socket carries events only.                                         *)
LEMMA Emitted ==
    ASSUME PageShapes, NEW to \in SUBSET ToBoth, NEW st \in Row!PayStatuses, Emit(to, st)
    PROVE  events' \in Seq(PageEvents)
<1>1. [to |-> Hearers(to), st |-> st] \in PageEvents
  BY DEF PageEvents, Hearers
<1>2. CASE events' = Append(events, [to |-> Hearers(to), st |-> st])
  BY <1>1, <1>2 DEF PageShapes
<1>3. CASE events' = events
  BY <1>3 DEF PageShapes
<1>4. QED
  BY <1>2, <1>3 DEF Emit

-----------------------------------------------------------------------------
(* The four kinds of step.  The page changes by what it asks ...           *)
LEMMA StepAsked ==
    ASSUME PromptInv, UNCHANGED <<trip, pay>>, page' \in Pages, events' \in Seq(PageEvents),
           \/ reqs' = reqs /\ page'.paying = page.paying
           \/ \E r \in PageRequests :
                 /\ r.at = "sent" /\ Blank(r) /\ reqs' = Append(reqs, r)
                 /\ IF IsPrompt(r) THEN ~page.paying /\ page'.paying
                                   ELSE page'.paying = page.paying,
           page'.paying \/ (page'.refused = page.refused /\ (Calm(page) => Calm(page')))
    PROVE  PromptInv'
<1>1. /\ PageShapes /\ OnePrompt(reqs) /\ InTurn(reqs) /\ (HasPrompt(reqs) => page.paying)
      /\ Prompted => FailuresAreOld(reqs)
  BY DEF PromptInv, QueueInv
<1>2. Prompted' = Prompted
  BY DEF Prompted
<1> DEFINE Queued == /\ reqs' \in Seq(PageRequests) /\ OnePrompt(reqs') /\ InTurn(reqs')
                     /\ HasPrompt(reqs') => page'.paying
                     /\ Prompted => FailuresAreOld(reqs')
<1>3. Queued
  <2>1. CASE reqs' = reqs /\ page'.paying = page.paying
    BY <1>1, <2>1 DEF PageShapes
  <2>2. ASSUME NEW r \in PageRequests, r.at = "sent", Blank(r), reqs' = Append(reqs, r),
               IF IsPrompt(r) THEN ~page.paying /\ page'.paying
                              ELSE page'.paying = page.paying
        PROVE  Queued
    <3>1. reqs \in Seq(PageRequests) /\ ~(HasPrompt(reqs) /\ IsPrompt(r))
      BY <1>1, <2>2 DEF PageShapes
    <3>2. /\ reqs' \in Seq(PageRequests) /\ OnePrompt(reqs') /\ InTurn(reqs')
          /\ HasPrompt(reqs') => HasPrompt(reqs) \/ IsPrompt(r)
          /\ FailuresAreOld(reqs) \/ IsPrompt(r) => FailuresAreOld(reqs')
      BY <1>1, <2>2, <3>1, QueueAsked
    <3>3. QED
      BY <1>1, <2>2, <3>2
  <2>3. QED
    BY <2>1, <2>2
<1>4. PageShapes'
  BY <1>1, <1>3 DEF PageShapes
<1>5. QueueInv'
  BY <1>3 DEF QueueInv, HasPrompt, OnePrompt, InTurn
<1>6. Prompted' => FailuresAreOld(reqs)'
  BY <1>2, <1>3 DEF FailuresAreOld, Behind
<1>7. Prompted' /\ ~page'.paying /\ ~page'.refused => Calm(page')
  <2>1. CASE page'.paying = page.paying
    BY <1>2, <2>1 DEF PromptInv
  <2>2. CASE page'.paying # page.paying
    BY <2>2
  <2>3. QED
    BY <2>1, <2>2
<1>8. QED
  BY <1>4, <1>5, <1>6, <1>7 DEF PromptInv, Calm

(* ... and by the replies that are no prompt's, which may ask once more.   *)
LEMMA StepRead ==
    ASSUME PromptInv, NEW i \in DOMAIN reqs, i = 1, ~IsPrompt(reqs[i]),
           UNCHANGED <<trip, pay, events>>, page' \in Pages, Alike(page, page'),
           \/ reqs' = Rest(i)
           \/ \E r \in PageRequests : r.at = "sent" /\ Blank(r) /\ ~IsPrompt(r)
                              /\ reqs' = Append(Rest(i), r),
           Calm(page) /\ (reqs[i].at = "ok" => reqs[i].pay # "FAILED") => Calm(page')
    PROVE  PromptInv'
<1>1. /\ PageShapes /\ OnePrompt(reqs) /\ InTurn(reqs) /\ (HasPrompt(reqs) => page.paying)
      /\ Prompted => FailuresAreOld(reqs) /\ reqs \in Seq(PageRequests)
  BY DEF PromptInv, QueueInv, PageShapes
<1>2. Prompted' = Prompted /\ page'.paying = page.paying /\ page'.refused = page.refused
  BY DEF Prompted, Alike
<1> DEFINE z == Rest(i)
<1>3. /\ z \in Seq(PageRequests) /\ OnePrompt(z) /\ InTurn(z)
      /\ HasPrompt(z) => HasPrompt(reqs)
      /\ FailuresAreOld(reqs) => FailuresAreOld(z)
  <2>1. reqs \in Seq(PageRequests) /\ z = RemoveAt(reqs, i)
    BY <1>1 DEF Rest, PageShapes
  <2> HIDE DEF z
  <2>2. QED
    BY <1>1, <2>1, QueueUsed
<1> HIDE DEF z
<1> DEFINE Queued == /\ reqs' \in Seq(PageRequests) /\ OnePrompt(reqs') /\ InTurn(reqs')
                     /\ HasPrompt(reqs') => page'.paying
                     /\ Prompted => FailuresAreOld(reqs')
<1>4. Queued
  <2>1. CASE reqs' = z
    BY <1>1, <1>2, <1>3, <2>1
  <2>2. ASSUME NEW r \in PageRequests, r.at = "sent", Blank(r), ~IsPrompt(r), reqs' = Append(z, r)
        PROVE  Queued
    <3>1. /\ reqs' \in Seq(PageRequests) /\ OnePrompt(reqs') /\ InTurn(reqs')
          /\ HasPrompt(reqs') => HasPrompt(z) \/ IsPrompt(r)
          /\ FailuresAreOld(z) \/ IsPrompt(r) => FailuresAreOld(reqs')
      BY <1>3, <2>2, QueueAsked
    <3>2. QED
      BY <1>1, <1>2, <1>3, <2>2, <3>1
  <2>3. QED
    BY <2>1, <2>2 DEF z
<1>5. PageShapes'
  BY <1>1, <1>4 DEF PageShapes
<1>6. QueueInv'
  BY <1>4 DEF QueueInv, HasPrompt, OnePrompt, InTurn
<1>7. Prompted' => FailuresAreOld(reqs)'
  BY <1>2, <1>4 DEF FailuresAreOld, Behind
<1>8. ASSUME Prompted', ~page'.paying, ~page'.refused
      PROVE  Calm(page')
  <2>1. Calm(page) /\ ~HasPrompt(reqs) /\ FailuresAreOld(reqs)
    BY <1>1, <1>2, <1>8 DEF PromptInv
  <2>2. reqs[i].at = "ok" => reqs[i].pay # "FAILED"
    BY <2>1 DEF FailuresAreOld, Behind, HasPrompt
  <2>3. QED
    BY <2>1, <2>2
<1>9. QED
  BY <1>5, <1>6, <1>7, <1>8 DEF PromptInv, Calm

(* A prompt is confirmed, or is not.                                       *)
LEMMA StepPrompt ==
    ASSUME PromptInv, NEW i \in DOMAIN reqs, i = 1, IsPrompt(reqs[i]),
           UNCHANGED <<trip, pay, events>>, page' \in Pages, reqs' = Rest(i),
           page'.refused \/ Calm(page')
    PROVE  PromptInv'
<1>1. /\ PageShapes /\ OnePrompt(reqs) /\ InTurn(reqs) /\ reqs \in Seq(PageRequests)
      /\ Prompted => FailuresAreOld(reqs)
  BY DEF PromptInv, QueueInv, PageShapes
<1>2. Prompted' = Prompted
  BY DEF Prompted
<1>3. /\ reqs' \in Seq(PageRequests) /\ OnePrompt(reqs') /\ InTurn(reqs') /\ ~HasPrompt(reqs')
      /\ FailuresAreOld(reqs) => FailuresAreOld(reqs')
  <2>1. reqs' = RemoveAt(reqs, i)
    BY DEF Rest
  <2>2. QED
    BY <1>1, <2>1, QueueUsed
<1>4. PageShapes'
  BY <1>1, <1>3 DEF PageShapes
<1>5. QueueInv'
  BY <1>3 DEF QueueInv, HasPrompt, OnePrompt, InTurn
<1>6. Prompted' => FailuresAreOld(reqs)'
  BY <1>1, <1>2, <1>3 DEF FailuresAreOld, Behind
<1>7. QED
  BY <1>4, <1>5, <1>6 DEF PromptInv, Calm

(* The server answers.                                                     *)
LEMMA StepAnswered ==
    ASSUME PromptInv, NEW i \in DOMAIN reqs, NEW a \in PageRequests,
           a.for = reqs[i].for, a.at # "sent",
           a.at = "ok" => \A j \in 1 .. i - 1 : reqs[j].at # "sent",
           reqs' = [reqs EXCEPT ![i] = a], UNCHANGED page,
           trip' \in Statuses, pay' \in [{Trip} -> Row!PayRows], events' \in Seq(PageEvents),
           Prompted' => \/ Prompted /\ (a.at = "ok" /\ a.pay = "FAILED" => IsPrompt(a))
                        \/ reqs[i].at = "sent" /\ IsPrompt(reqs[i])
    PROVE  PromptInv'
<1>1. /\ PageShapes /\ OnePrompt(reqs) /\ InTurn(reqs) /\ (HasPrompt(reqs) => page.paying)
      /\ Prompted => FailuresAreOld(reqs) /\ reqs \in Seq(PageRequests)
  BY DEF PromptInv, QueueInv, PageShapes
<1>2. /\ reqs' \in Seq(PageRequests) /\ OnePrompt(reqs') /\ InTurn(reqs')
      /\ HasPrompt(reqs') => HasPrompt(reqs)
      /\ FailuresAreOld(reqs) /\ (a.at = "ok" /\ a.pay = "FAILED" => IsPrompt(a))
           => FailuresAreOld(reqs')
      /\ reqs[i].at = "sent" /\ IsPrompt(reqs[i]) => FailuresAreOld(reqs')
  BY <1>1, QueueAnswered DEF PageShapes
<1>3. PageShapes'
  BY <1>1, <1>2 DEF PageShapes
<1>4. QueueInv'
  BY <1>1, <1>2 DEF QueueInv, HasPrompt, OnePrompt, InTurn
<1>5. Prompted' => FailuresAreOld(reqs')
  BY <1>1, <1>2
<1>6. Prompted' => FailuresAreOld(reqs)'
  BY <1>5 DEF FailuresAreOld, Behind
<1>7. ASSUME Prompted', ~page'.paying, ~page'.refused
      PROVE  Calm(page)'
  <2>1. ~IsPrompt(reqs[i])
    BY <1>1, <1>7 DEF HasPrompt
  <2>2. Prompted
    BY <1>7, <2>1
  <2>3. QED
    BY <1>7, <2>2 DEF PromptInv, Calm
<1>8. QED
  BY <1>3, <1>4, <1>6, <1>7 DEF PromptInv

(* The payment and the trip move by themselves.                            *)
LEMMA StepMoved ==
    ASSUME PromptInv, UNCHANGED <<page, reqs>>, Prompted' => Prompted,
           trip' \in Statuses, pay' \in [{Trip} -> Row!PayRows], events' \in Seq(PageEvents)
    PROVE  PromptInv'
  BY DEF PromptInv, PageShapes, QueueInv, FailuresAreOld, Behind, Calm, HasPrompt, OnePrompt,
         InTurn

(* A prompt that ended in an error is asked about.                         *)
LEMMA StepRecovers ==
    ASSUME PromptInv, NEW i \in DOMAIN reqs, i = 1, IsPrompt(reqs[i]),
           UNCHANGED <<trip, pay, page, events>>, reqs' = Append(Rest(i), Get("recover"))
    PROVE  PromptInv'
<1>1. /\ PageShapes /\ OnePrompt(reqs) /\ InTurn(reqs) /\ reqs \in Seq(PageRequests)
      /\ HasPrompt(reqs) => page.paying
  BY DEF PromptInv, QueueInv, PageShapes
<1> DEFINE z == Rest(i)
<1>2. z \in Seq(PageRequests) /\ OnePrompt(z) /\ InTurn(z) /\ ~HasPrompt(z)
  <2>1. z = RemoveAt(reqs, i)
    BY DEF Rest
  <2> HIDE DEF z
  <2>2. QED
    BY <1>1, <2>1, QueueUsed
<1>3. "NONE" \in Row!PayStatuses
  BY DEF Row!PayStatuses
<1>4. /\ Get("recover") \in PageRequests /\ Get("recover").at = "sent"
      /\ Blank(Get("recover")) /\ IsPrompt(Get("recover"))
  BY <1>3, Asking DEF IsPrompt
<1>5. /\ reqs' \in Seq(PageRequests) /\ OnePrompt(reqs') /\ InTurn(reqs') /\ FailuresAreOld(reqs')
  <2> HIDE DEF z
  <2>1. reqs' = Append(z, Get("recover"))
    BY DEF z
  <2>2. QED
    BY <1>2, <1>4, <2>1, QueueAsked
<1>6. page.paying
  BY <1>1 DEF HasPrompt
<1>7. PageShapes'
  BY <1>1, <1>5 DEF PageShapes
<1>8. QueueInv'
  BY <1>5, <1>6 DEF QueueInv, HasPrompt, OnePrompt, InTurn
<1>9. FailuresAreOld(reqs)'
  BY <1>5 DEF FailuresAreOld, Behind
<1>10. QED
  BY <1>6, <1>7, <1>8, <1>9 DEF PromptInv, Calm

-----------------------------------------------------------------------------
(* A reply is read.                                                        *)
LEMMA StepReply ==
    ASSUME ~Overtake, PromptInv, NEW i \in DOMAIN reqs, Reply(i)
    PROVE  PromptInv'
<1> DEFINE r == reqs[i]
<1>1. page \in Pages /\ reqs \in Seq(PageRequests) /\ r \in PageRequests
  BY DEF PromptInv, PageShapes
<1>2. /\ r.pay \in Row!PayStatuses /\ r.to \in Row!PayStatuses /\ r.to # "PROCESSING"
      /\ r.for = "recover" => IsPrompt(r)
  BY <1>1 DEF PageRequests, Row!PayStatuses, Terminal, IsPrompt
<1> HIDE DEF r
<1>3. ASSUME NEW p \in Pages, NEW st \in Row!PayStatuses, NEW claim \in Row!PayStatuses,
             claim # "PROCESSING", Alike(page, p), UNCHANGED <<trip, pay, events>>, i = 1,
             ~IsPrompt(r), page' = p,
             Calm(page) /\ (r.at = "ok" => r.pay # "FAILED") => Calm(p),
             NEW what \in {"after", "reconcile"}, NEW asks \in BOOLEAN,
             RestAnd(i, asks, Request(what, claim))
      PROVE  PromptInv'
  <2>1. /\ Request(what, claim) \in PageRequests /\ Request(what, claim).at = "sent"
        /\ Blank(Request(what, claim)) /\ ~IsPrompt(Request(what, claim))
    BY <1>3, Asking DEF IsPrompt
  <2>2. reqs' = Rest(i) \/ reqs' = Append(Rest(i), Request(what, claim))
    BY <1>3 DEF RestAnd
  <2>3. QED
    BY <1>3, <2>1, <2>2, StepRead DEF r
<1>4. ASSUME NEW p \in Pages, Alike(page, p), UNCHANGED <<trip, pay, events>>, i = 1,
             ~IsPrompt(r), page' = p, Only(i),
             Calm(page) /\ (r.at = "ok" => r.pay # "FAILED") => Calm(p)
      PROVE  PromptInv'
  BY <1>4, StepRead DEF Only, r
<1>5. CASE InitReply(i)
  <2> DEFINE read == [WithPay(WithTrip(page, r), r) EXCEPT !.st = "open"]
             await == [read EXCEPT !.since = "past", !.resend = TRUE,
                                   !.sync = method = "MPESA", !.poller = "waiting"]
  <2>1. /\ UNCHANGED <<trip, pay, events>> /\ i = 1 /\ ~IsPrompt(r) /\ Only(i) /\ r.at = "ok"
        /\ page' = IF r.pay = "PROCESSING" THEN await
                   ELSE IF r.pay = "COMPLETED" /\ Active(read) THEN WithRidePoll(read)
                        ELSE read
    BY <1>5 DEF InitReply, Came, IsPrompt, r
  <2>2. /\ read \in Pages /\ Alike(page, read)
        /\ Calm(page) /\ r.pay # "FAILED" => Calm(read)
    <3>1. /\ WithTrip(page, r) \in Pages /\ Alike(page, WithTrip(page, r))
          /\ Calm(page) => Calm(WithTrip(page, r))
      BY <1>1, TripShown
    <3> DEFINE p == WithPay(WithTrip(page, r), r)
    <3>2. p \in Pages /\ Alike(WithTrip(page, r), p)
          /\ (Calm(WithTrip(page, r)) /\ r.pay # "FAILED" => Calm(p))
      BY <1>1, <3>1, PayShown
    <3> HIDE DEF p
    <3>3. [p EXCEPT !.st = "open"] \in Pages /\ Alike(p, [p EXCEPT !.st = "open"])
          /\ (Calm(p) => Calm([p EXCEPT !.st = "open"]))
      BY <3>2 DEF Pages, Alike, Calm
    <3>4. QED
      BY <3>1, <3>2, <3>3 DEF Alike, p
  <2> HIDE DEF read
  <2>3. await \in Pages /\ Alike(read, await) /\ (Calm(read) => Calm(await))
    <3> DEFINE set == method = "MPESA"
    <3>1. set \in BOOLEAN
      OBVIOUS
    <3>2. await = [read EXCEPT !.since = "past", !.resend = TRUE,
                               !.sync = set, !.poller = "waiting"]
      OBVIOUS
    <3> HIDE DEF set, await
    <3>3. QED
      BY <2>2, <3>1, <3>2 DEF Pages, Alike, Calm
  <2>4. /\ WithRidePoll(read) \in Pages /\ Alike(read, WithRidePoll(read))
        /\ Calm(read) => Calm(WithRidePoll(read))
    BY <2>2, PolledShown
  <2> HIDE DEF await
  <2>5. /\ page' \in Pages /\ Alike(page, page')
        /\ Calm(page) /\ r.pay # "FAILED" => Calm(page')
    BY <2>1, <2>2, <2>3, <2>4 DEF Alike
  <2>6. QED
    BY <1>4, <2>1, <2>5
<1>6. CASE ReconcileReply(i)
  <2> DEFINE p == WithTrip(page, r)
  <2>1. /\ UNCHANGED <<trip, pay, events>> /\ i = 1 /\ ~IsPrompt(r) /\ r.at = "ok"
        /\ IF r.pay # r.to
           THEN page' = WithPay(p, r) /\ Only(i)
           ELSE page' = WithTerminal(p, r.pay)
                /\ RestAnd(i, AsksAfter(p, r.pay), Get("after"))
    BY <1>6 DEF ReconcileReply, Came, IsPrompt, r
  <2>2. p \in Pages /\ Alike(page, p) /\ (Calm(page) => Calm(p))
    BY <1>1, TripShown
  <2> HIDE DEF p
  <2>3. WithPay(p, r) \in Pages /\ Alike(p, WithPay(p, r))
        /\ (Calm(p) /\ r.pay # "FAILED" => Calm(WithPay(p, r)))
    BY <1>1, <2>2, PayShown
  <2>4. WithTerminal(p, r.pay) \in Pages /\ Alike(p, WithTerminal(p, r.pay))
        /\ (Calm(p) /\ r.pay # "FAILED" => Calm(WithTerminal(p, r.pay)))
    BY <1>2, <2>2, TerminalShown
  <2>5. CASE r.pay # r.to
    BY <1>4, <2>1, <2>2, <2>3, <2>5 DEF Alike
  <2>6. CASE r.pay = r.to
    <3>1. "NONE" \in Row!PayStatuses /\ Get("after") = Request("after", "NONE")
      BY DEF Row!PayStatuses, Get
    <3>2. AsksAfter(p, r.pay) \in BOOLEAN
      BY DEF AsksAfter
    <3>3. QED
      BY <1>2, <1>3, <2>1, <2>2, <2>4, <2>6, <3>1, <3>2 DEF Alike
  <2>7. QED
    BY <2>5, <2>6
<1>7. CASE TickReply(i)
  <2> DEFINE p == WithPay(WithTrip(page, r), r)
             off == [p EXCEPT !.sync = FALSE]
  <2>1. /\ UNCHANGED <<trip, pay, events>> /\ i = 1 /\ ~IsPrompt(r) /\ r.at = "ok"
        /\ IF r.pay \in Terminal
           THEN /\ page' = WithTerminal(off, r.pay)
                /\ RestAnd(i, AsksAfter(p, r.pay), Get("after"))
           ELSE page' = p /\ Only(i)
    BY <1>7 DEF TickReply, Came, IsPrompt, r
  <2>2. WithTrip(page, r) \in Pages /\ Alike(page, WithTrip(page, r))
        /\ (Calm(page) => Calm(WithTrip(page, r)))
    BY <1>1, TripShown
  <2>3. p \in Pages /\ Alike(page, p) /\ (Calm(page) /\ r.pay # "FAILED" => Calm(p))
    BY <1>1, <2>2, PayShown DEF Alike
  <2> HIDE DEF p
  <2>4. off \in Pages /\ Alike(p, off) /\ (Calm(p) => Calm(off))
    BY <2>3 DEF Pages, Alike, Calm
  <2> HIDE DEF off
  <2>5. WithTerminal(off, r.pay) \in Pages /\ Alike(off, WithTerminal(off, r.pay))
        /\ (Calm(off) /\ r.pay # "FAILED" => Calm(WithTerminal(off, r.pay)))
    BY <1>2, <2>4, TerminalShown
  <2>6. CASE r.pay \notin Terminal
    BY <1>4, <2>1, <2>3, <2>6
  <2>7. CASE r.pay \in Terminal
    <3>1. "NONE" \in Row!PayStatuses /\ Get("after") = Request("after", "NONE")
      BY DEF Row!PayStatuses, Get
    <3>2. AsksAfter(p, r.pay) \in BOOLEAN
      BY DEF AsksAfter
    <3>3. QED
      BY <1>2, <1>3, <2>1, <2>3, <2>4, <2>5, <2>7, <3>1, <3>2 DEF Alike
  <2>8. QED
    BY <2>6, <2>7
<1>8. CASE AfterReply(i)
  <2> DEFINE p == WithPay(WithTrip(page, r), r)
             polls == r.for = "after" \/ (r.for = "cash" /\ r.pay = "COMPLETED")
  <2>1. /\ UNCHANGED <<trip, pay, events>> /\ i = 1 /\ ~IsPrompt(r) /\ r.at = "ok" /\ Only(i)
        /\ page' = IF polls /\ Active(p) THEN WithRidePoll(p) ELSE p
    BY <1>8 DEF AfterReply, Came, IsPrompt, r
  <2>2. WithTrip(page, r) \in Pages /\ Alike(page, WithTrip(page, r))
        /\ (Calm(page) => Calm(WithTrip(page, r)))
    BY <1>1, TripShown
  <2>3. p \in Pages /\ Alike(page, p) /\ (Calm(page) /\ r.pay # "FAILED" => Calm(p))
    BY <1>1, <2>2, PayShown DEF Alike
  <2> HIDE DEF p
  <2>4. WithRidePoll(p) \in Pages /\ Alike(p, WithRidePoll(p))
        /\ (Calm(p) => Calm(WithRidePoll(p)))
    BY <2>3, PolledShown
  <2>5. QED
    BY <1>4, <2>1, <2>3, <2>4 DEF Alike
<1>9. CASE PollReply(i)
  <2> DEFINE p == WithPay(WithTrip(page, r), r)
             again == Active(p)
             go == [p EXCEPT !.ridePoll = again]
             retry == [page EXCEPT !.ridePoll = TRUE]
  <2>1. /\ UNCHANGED <<trip, pay, events>> /\ i = 1 /\ ~IsPrompt(r) /\ Only(i)
        /\ page' = IF r.at = "ok" THEN go ELSE retry
    BY <1>9 DEF PollReply, Came, IsPrompt, r
  <2>2. WithTrip(page, r) \in Pages /\ Alike(page, WithTrip(page, r))
        /\ (Calm(page) => Calm(WithTrip(page, r)))
    BY <1>1, TripShown
  <2>3. p \in Pages /\ Alike(page, p) /\ (Calm(page) /\ r.pay # "FAILED" => Calm(p))
    BY <1>1, <2>2, PayShown DEF Alike
  <2>4. again \in BOOLEAN
    BY DEF Active
  <2> HIDE DEF p, again
  <2>5. go \in Pages /\ Alike(p, go) /\ (Calm(p) => Calm(go))
    BY <2>3, <2>4 DEF Pages, Alike, Calm
  <2>6. retry \in Pages /\ Alike(page, retry) /\ (Calm(page) => Calm(retry))
    BY <1>1 DEF Pages, Alike, Calm
  <2> HIDE DEF go, retry
  <2>7. QED
    BY <1>4, <2>1, <2>3, <2>5, <2>6 DEF Alike
<1>10. CASE RefreshReply(i)
  <2> DEFINE p == [WithTrip(page, r) EXCEPT !.refreshing = FALSE]
  <2>1. /\ UNCHANGED <<trip, pay, events>> /\ i = 1 /\ ~IsPrompt(r) /\ r.at = "ok"
        /\ page' = IF r.pay \in Terminal THEN p ELSE WithPay(p, r)
        /\ RestAnd(i, r.pay \in Terminal, Request("reconcile", r.pay))
    BY <1>10 DEF RefreshReply, Came, IsPrompt, r
  <2>2. WithTrip(page, r) \in Pages /\ Alike(page, WithTrip(page, r))
        /\ (Calm(page) => Calm(WithTrip(page, r)))
    BY <1>1, TripShown
  <2>3. p \in Pages /\ Alike(page, p) /\ (Calm(page) => Calm(p))
    BY <2>2 DEF Pages, Alike, Calm
  <2> HIDE DEF p
  <2>4. WithPay(p, r) \in Pages /\ Alike(p, WithPay(p, r))
        /\ (Calm(p) /\ r.pay # "FAILED" => Calm(WithPay(p, r)))
    BY <1>1, <2>3, PayShown
  <2>5. CASE r.pay \notin Terminal
    BY <1>4, <2>1, <2>3, <2>4, <2>5 DEF Only, RestAnd, Alike
  <2>6. CASE r.pay \in Terminal
    <3>1. r.pay # "PROCESSING" /\ (r.pay \in Terminal) \in BOOLEAN
      BY <2>6 DEF Terminal
    <3>2. RestAnd(i, TRUE, Request("reconcile", r.pay))
      BY <2>1, <2>6 DEF RestAnd
    <3>3. QED
      BY <1>2, <1>3, <2>1, <2>3, <2>6, <3>1, <3>2
  <2>7. QED
    BY <2>5, <2>6
<1>11. CASE PromptReply(i)
  <2>1. /\ UNCHANGED <<trip, pay, events>> /\ i = 1 /\ IsPrompt(r)
        /\ \/ page' = WithPrompt(page) /\ reqs' = Rest(i)
           \/ reqs' = Append(Rest(i), Get("recover")) /\ UNCHANGED page
           \/ page' = [page EXCEPT !.paying = FALSE, !.refused = TRUE] /\ reqs' = Rest(i)
    BY <1>11 DEF PromptReply, Came, IsPrompt, Only, RestAnd, r
  <2>2. CASE page' = WithPrompt(page) /\ reqs' = Rest(i)
    BY <1>1, <2>1, <2>2, PromptShown, StepPrompt DEF r
  <2>3. CASE reqs' = Append(Rest(i), Get("recover")) /\ UNCHANGED page
    BY <1>1, <2>1, <2>3, StepRecovers DEF r
  <2>4. CASE page' = [page EXCEPT !.paying = FALSE, !.refused = TRUE] /\ reqs' = Rest(i)
    <3>1. page' \in Pages /\ page'.refused
      BY <1>1, <2>4 DEF Pages
    <3>2. QED
      BY <1>1, <2>1, <2>4, <3>1, StepPrompt DEF r
  <2>5. QED
    BY <2>1, <2>2, <2>3, <2>4
<1>12. CASE RecoverReply(i)
  <2> DEFINE p == WithTrip(page, r)
             refused == [p EXCEPT !.paying = FALSE, !.refused = TRUE]
  <2>1. /\ UNCHANGED <<trip, pay, events>> /\ i = 1 /\ IsPrompt(r) /\ reqs' = Rest(i)
        /\ page' = WithPrompt(p) \/ page' = refused
    BY <1>12 DEF RecoverReply, Came, IsPrompt, Only, r
  <2>2. p \in Pages
    BY <1>1, TripShown
  <2> HIDE DEF p
  <2>3. WithPrompt(p) \in Pages /\ Calm(WithPrompt(p))
    BY <2>2, PromptShown
  <2>4. refused \in Pages /\ refused.refused
    BY <2>2 DEF Pages
  <2> HIDE DEF refused
  <2>5. QED
    BY <2>1, <2>3, <2>4, StepPrompt DEF r
<1>13. CASE CancelReply(i)
  <2> DEFINE p == IF r.at = "ok" THEN WithTrip(page, r) ELSE page
             done == [p EXCEPT !.cancelling = FALSE]
  <2>1. /\ UNCHANGED <<trip, pay, events>> /\ i = 1 /\ ~IsPrompt(r) /\ Only(i) /\ page' = done
    BY <1>13 DEF CancelReply, Came, IsPrompt, r
  <2>2. p \in Pages /\ Alike(page, p) /\ (Calm(page) => Calm(p))
    BY <1>1, TripShown DEF Alike
  <2> HIDE DEF p
  <2>3. done \in Pages /\ Alike(p, done) /\ (Calm(p) => Calm(done))
    BY <2>2 DEF Pages, Alike, Calm
  <2> HIDE DEF done
  <2>4. QED
    BY <1>4, <2>1, <2>2, <2>3 DEF Alike
<1>14. CASE ReadFailed(i)
  <2> DEFINE back == [page EXCEPT !.paying = FALSE, !.refused = TRUE]
  <2>1. UNCHANGED <<trip, pay, events>> /\ i = 1 /\ Only(i)
    BY <1>14 DEF ReadFailed, Came, r
  <2>2. CASE r.for = "recover"
    <3>1. page' = back
      BY <1>14, <2>2 DEF ReadFailed, Came, r
    <3>2. back \in Pages /\ back.refused
      BY <1>1 DEF Pages
    <3> HIDE DEF back
    <3>3. QED
      BY <1>2, <2>1, <2>2, <3>1, <3>2, StepPrompt DEF Only, r
  <2>3. CASE r.for # "recover"
    <3>1. ~IsPrompt(r)
      BY <1>14, <2>3 DEF ReadFailed, Came, IsPrompt, r
    <3>2. \/ page' = [page EXCEPT !.st = "open"]
          \/ page' = [page EXCEPT !.refreshing = FALSE]
          \/ page' = page
      BY <1>14, <2>3 DEF ReadFailed, Came, r
    <3>3. page' \in Pages /\ Alike(page, page') /\ (Calm(page) => Calm(page'))
      BY <1>1, <3>2 DEF Pages, Alike, Calm
    <3>4. QED
      BY <1>4, <2>1, <3>1, <3>3
  <2>4. QED
    BY <2>2, <2>3
<1>15. QED
  BY <1>5, <1>6, <1>7, <1>8, <1>9, <1>10, <1>11, <1>12, <1>13, <1>14 DEF Reply

-----------------------------------------------------------------------------
(* A step of the server, or of the network.                                *)
LEMMA StepServer ==
    ASSUME ~Overtake, PromptInv, Server
    PROVE  PromptInv'
<1>1. /\ trip \in Statuses /\ pay \in [{Trip} -> Row!PayRows] /\ reqs \in Seq(PageRequests)
      /\ events \in Seq(PageEvents) /\ PageShapes
      /\ pay[Trip].st \in Row!PayStatuses
      /\ \A i \in DOMAIN reqs : reqs[i] \in PageRequests
  BY DEF PromptInv, PageShapes, Row!PayRows
<1> DEFINE Row1(st, m) == [st |-> st, method |-> m]
<1>2. \A st \in Row!PayStatuses : pay' = [pay EXCEPT ![Trip].st = st] =>
          pay' \in [{Trip} -> Row!PayRows] /\ pay'[Trip].st = st
  BY <1>1 DEF Row!PayRows
<1>3. \A st \in Row!PayStatuses, m \in Row!PayMethods :
          pay' = [pay EXCEPT ![Trip] = [st |-> st, method |-> m]] =>
          pay' \in [{Trip} -> Row!PayRows] /\ pay'[Trip].st = st
  BY <1>1 DEF Row!PayRows
<1>4. /\ ToBoth \in SUBSET ToBoth /\ {"payment"} \in SUBSET ToBoth
      /\ {"PROCESSING", "COMPLETED", "FAILED"} \subseteq Row!PayStatuses
      /\ {"MPESA", "CASH"} \subseteq Row!PayMethods
  BY DEF ToBoth, Row!PayStatuses, Row!PayMethods
<1>5. CASE TripProgresses
  <2>1. UNCHANGED <<page, reqs>> /\ trip' \in Statuses
    BY <1>5 DEF TripProgresses, Statuses
  <2>2. /\ pay' \in [{Trip} -> Row!PayRows] /\ (Prompted' => Prompted)
        /\ events' \in Seq(PageEvents)
    <3>1. CASE UNCHANGED <<pay, events>>
      BY <1>1, <3>1 DEF Prompted
    <3>2. CASE Row!CollectCash(Trip) /\ Emit(ToBoth, "COMPLETED")
      <4>1. pay' \in [{Trip} -> Row!PayRows] /\ pay'[Trip].st = "COMPLETED"
        BY <1>3, <1>4, <3>2 DEF Row!CollectCash
      <4>2. QED
        BY <1>1, <1>4, <3>2, <4>1, Emitted DEF Prompted
    <3>3. QED
      BY <1>5, <3>1, <3>2 DEF TripProgresses
  <2>3. QED
    BY <2>1, <2>2, StepMoved
<1>6. CASE PaymentMoves
  <2>1. UNCHANGED <<page, reqs>> /\ trip' \in Statuses
    BY <1>1, <1>6 DEF PaymentMoves
  <2>2. ASSUME NEW to \in SUBSET ToBoth, NEW st \in {"COMPLETED", "FAILED"},
               pay' = [pay EXCEPT ![Trip].st = st], Emit(to, st)
        PROVE  PromptInv'
    <3>1. pay' \in [{Trip} -> Row!PayRows] /\ pay'[Trip].st = st
      BY <1>2, <1>4, <2>2
    <3>2. events' \in Seq(PageEvents)
      BY <1>1, <1>4, <2>2, Emitted
    <3>3. ~Prompted'
      BY <3>1 DEF Prompted
    <3>4. QED
      BY <2>1, <3>1, <3>2, <3>3, StepMoved
  <2>3. CASE Row!SettleRow(Trip) /\ Emit(ToBoth, "COMPLETED")
    BY <1>4, <2>2, <2>3 DEF Row!SettleRow
  <2>4. CASE Row!FailRow(Trip) /\ Emit(ToBoth, "FAILED")
    BY <1>4, <2>2, <2>4 DEF Row!FailRow
  <2>5. CASE Row!FailRow(Trip) /\ Emit({"payment"}, "FAILED")
    BY <1>4, <2>2, <2>5 DEF Row!FailRow
  <2>6. CASE Emit({"payment"}, "PROCESSING") /\ UNCHANGED pay
    <3>1. events' \in Seq(PageEvents)
      BY <1>1, <1>4, <2>6, Emitted
    <3>2. QED
      BY <1>1, <2>1, <2>6, <3>1, StepMoved DEF Prompted
  <2>7. QED
    BY <1>6, <2>3, <2>4, <2>5, <2>6 DEF PaymentMoves
<1>7. ASSUME NEW i \in DOMAIN reqs, NEW a \in {"ok", "error", "refused"}, Due(i), Answer(i, a),
             UNCHANGED page, trip' \in Statuses, pay' \in [{Trip} -> Row!PayRows],
             events' \in Seq(PageEvents), IsPrompt(reqs[i]) \/ (a # "ok" /\ (Prompted' => Prompted))
      PROVE  PromptInv'
  <2> DEFINE r == [reqs[i] EXCEPT !.at = a]
  <2>1. r \in PageRequests /\ r.for = reqs[i].for /\ r.at = a
    BY <1>1 DEF PageRequests
  <2>2. reqs' = [reqs EXCEPT ![i] = r]
    BY <1>7 DEF Answer
  <2>3. reqs[i].at = "sent" /\ \A j \in 1 .. i - 1 : reqs[j].at # "sent"
    BY <1>7 DEF Due
  <2> HIDE DEF r
  <2>4. QED
    BY <1>7, <2>1, <2>2, <2>3, StepAnswered
<1>8. ASSUME NEW i \in DOMAIN reqs, ServeInitiate(i)
      PROVE  PromptInv'
  <2>1. Due(i) /\ IsPrompt(reqs[i]) /\ UNCHANGED <<trip, page, events>>
    BY <1>8 DEF ServeInitiate, IsPrompt
  <2>2. PICK a \in {"ok", "error"} : Answer(i, a)
    BY <1>8 DEF ServeInitiate
  <2>3. pay' \in [{Trip} -> Row!PayRows]
    BY <1>1, <1>3, <1>4, <1>8 DEF ServeInitiate, Row!CreateRow
  <2>4. QED
    BY <1>1, <1>7, <2>1, <2>2, <2>3
<1>9. ASSUME NEW i \in DOMAIN reqs, ServeResend(i)
      PROVE  PromptInv'
  <2>1. Due(i) /\ IsPrompt(reqs[i]) /\ UNCHANGED <<trip, page>>
    BY <1>9 DEF ServeResend, IsPrompt
  <2>2. PICK a \in {"ok", "refused"} : Answer(i, a)
    BY <1>9 DEF ServeResend
  <2>3. pay' \in [{Trip} -> Row!PayRows]
    BY <1>1, <1>2, <1>4, <1>9 DEF ServeResend, Row!ResendRow
  <2>4. events' \in Seq(PageEvents)
    BY <1>1, <1>4, <1>9, Emitted DEF ServeResend
  <2>5. QED
    BY <1>1, <1>7, <2>1, <2>2, <2>3, <2>4
<1>10. ASSUME NEW i \in DOMAIN reqs, ServeCancel(i)
       PROVE  PromptInv'
  <2>1. /\ Due(i) /\ reqs[i].for = "cancel" /\ UNCHANGED <<pay, page, events>>
        /\ trip' \in Statuses
    BY <1>1, <1>10 DEF ServeCancel, Statuses
  <2>2. CASE Answer(i, "refused")
    BY <1>1, <1>7, <2>1, <2>2 DEF Prompted
  <2>3. CASE reqs' = [reqs EXCEPT ![i].at = "ok", ![i].trip = "CANCELLED"]
    <3> DEFINE r == [reqs[i] EXCEPT !.at = "ok", !.trip = "CANCELLED"]
    <3>1. r \in PageRequests /\ r.for = reqs[i].for /\ r.at = "ok" /\ r.pay = reqs[i].pay
      BY <1>1 DEF PageRequests, Statuses
    <3>2. reqs' = [reqs EXCEPT ![i] = r]
      BY <1>1, <2>3 DEF PageRequests
    <3>3. reqs[i].at = "sent" /\ \A j \in 1 .. i - 1 : reqs[j].at # "sent"
      BY <2>1 DEF Due
    <3> HIDE DEF r
    <3>4. r.pay # "FAILED"
      BY <3>1, <3>3 DEF PromptInv, QueueInv, InTurn, Blank
    <3>5. QED
      BY <1>1, <2>1, <3>1, <3>2, <3>3, <3>4, StepAnswered DEF Prompted
  <2>4. QED
    BY <1>10, <2>2, <2>3 DEF ServeCancel
<1>11. ASSUME NEW i \in DOMAIN reqs, ServeGet(i)
       PROVE  PromptInv'
  <2> DEFINE r == [reqs[i] EXCEPT !.at = "ok", !.trip = trip, !.pay = pay[Trip].st]
  <2>1. r \in PageRequests /\ r.for = reqs[i].for /\ r.at = "ok" /\ r.pay = pay[Trip].st
    BY <1>1 DEF PageRequests
  <2>2. reqs' = [reqs EXCEPT ![i] = r] /\ UNCHANGED <<trip, pay, page, events>>
    BY <1>1, <1>11 DEF ServeGet, PageRequests
  <2>3. reqs[i].at = "sent" /\ \A j \in 1 .. i - 1 : reqs[j].at # "sent"
    BY <1>11 DEF ServeGet, Due
  <2> HIDE DEF r
  <2>4. Prompted' => Prompted /\ r.pay # "FAILED"
    BY <2>1, <2>2 DEF Prompted
  <2>5. QED
    BY <1>1, <2>1, <2>2, <2>3, <2>4, StepAnswered
<1>12. ASSUME NEW i \in DOMAIN reqs, RequestFails(i)
       PROVE  PromptInv'
  <2>1. PICK a \in {"error", "refused"} : Answer(i, a)
    BY <1>12 DEF RequestFails
  <2> DEFINE r == [reqs[i] EXCEPT !.at = a]
  <2>2. r \in PageRequests /\ r.for = reqs[i].for /\ r.at = a
    BY <1>1 DEF PageRequests
  <2>3. reqs' = [reqs EXCEPT ![i] = r] /\ UNCHANGED <<trip, pay, page, events>>
    BY <1>12, <2>1 DEF RequestFails, Answer
  <2> HIDE DEF r
  <2>4. QED
    BY <1>1, <2>1, <2>2, <2>3, StepAnswered DEF Prompted
<1>13. CASE SocketConnects
  BY <1>1, <1>13, StepMoved DEF SocketConnects, Prompted
<1>14. CASE SocketDrops
  <2>1. UNCHANGED <<trip, pay, page, reqs>> /\ events' \in Seq(PageEvents)
    BY <1>14 DEF SocketDrops
  <2>2. QED
    BY <1>1, <2>1, StepMoved DEF Prompted
<1>15. QED
  BY <1>5, <1>6, <1>8, <1>9, <1>10, <1>11, <1>12, <1>13, <1>14 DEF Server

(* An event of the socket is handled: it starts a read, or changes the     *)
(* page by itself.                                                         *)
LEMMA StepEvent ==
    ASSUME PromptInv, EventArrives
    PROVE  PromptInv'
<1>1. /\ page \in Pages /\ events \in Seq(PageEvents) /\ UNCHANGED <<trip, pay>>
      /\ events # <<>> /\ events' = Tail(events)
  BY DEF PromptInv, PageShapes, EventArrives
<1>2. Head(events) \in PageEvents /\ events' \in Seq(PageEvents)
  BY <1>1
<1> DEFINE st == Head(events).st
           same == [page EXCEPT !.pay = IF @ = "NONE" THEN @ ELSE st]
<1>3. st \in Row!PayStatuses
  BY <1>2 DEF PageEvents
<1> HIDE DEF st
<1>4. \/ UNCHANGED <<page, reqs>>
      \/ st = "PROCESSING" /\ page' = same /\ UNCHANGED reqs
      \/ st # "PROCESSING" /\ Ask(Request("reconcile", st)) /\ UNCHANGED page
      \/ Ask(Get("cash")) /\ UNCHANGED page
  BY DEF EventArrives, st
<1>5. CASE UNCHANGED <<page, reqs>>
  BY <1>1, <1>2, <1>5, StepAsked
<1>6. CASE st = "PROCESSING" /\ page' = same /\ UNCHANGED reqs
  <2>1. /\ page' \in Pages /\ page'.paying = page.paying /\ page'.refused = page.refused
        /\ Calm(page) => Calm(page')
    BY <1>1, <1>3, <1>6 DEF Pages, Calm
  <2>2. QED
    BY <1>1, <1>2, <1>6, <2>1, StepAsked
<1>7. CASE st # "PROCESSING" /\ Ask(Request("reconcile", st)) /\ UNCHANGED page
  <2>1. /\ Request("reconcile", st) \in PageRequests /\ Request("reconcile", st).at = "sent"
        /\ Blank(Request("reconcile", st)) /\ ~IsPrompt(Request("reconcile", st))
    BY <1>3, <1>7, Asking DEF IsPrompt
  <2>2. QED
    BY <1>1, <1>2, <1>7, <2>1, StepAsked DEF Ask
<1>8. CASE Ask(Get("cash")) /\ UNCHANGED page
  <2>1. "NONE" \in Row!PayStatuses
    BY DEF Row!PayStatuses
  <2>2. /\ Get("cash") \in PageRequests /\ Get("cash").at = "sent" /\ Blank(Get("cash"))
        /\ ~IsPrompt(Get("cash"))
    BY <2>1, Asking DEF IsPrompt
  <2>3. QED
    BY <1>1, <1>2, <1>8, <2>2, StepAsked DEF Ask
<1>9. QED
  BY <1>4, <1>5, <1>6, <1>7, <1>8

(* A timer goes off. HalfMinute shows a failure that was put off, which    *)
(* PromptInv says there is not.                                            *)
LEMMA StepTimers ==
    ASSUME PromptInv, Timers
    PROVE  PromptInv'
<1>1. /\ page \in Pages /\ UNCHANGED <<trip, pay, events>> /\ events' \in Seq(PageEvents)
      /\ pay[Trip].st \in Row!PayStatuses
  BY DEF PromptInv, PageShapes, Timers, SyncTick, PollerSees, PollerReturns, PollerGivesUp,
         RidePoll, HalfMinute, Row!PayRows
<1>2. ASSUME NEW p \in Pages, page' = p, Alike(page, p), Calm(page) => Calm(p),
             UNCHANGED reqs
      PROVE  PromptInv'
  BY <1>1, <1>2, StepAsked DEF Alike
<1>3. ASSUME NEW p \in Pages, page' = p, Alike(page, p), Calm(page) => Calm(p),
             NEW what \in {"tick", "poll", "reconcile"}, NEW claim \in Row!PayStatuses,
             claim # "PROCESSING", Ask(Request(what, claim))
      PROVE  PromptInv'
  <2>1. /\ Request(what, claim) \in PageRequests /\ Request(what, claim).at = "sent"
        /\ Blank(Request(what, claim)) /\ ~IsPrompt(Request(what, claim))
    BY <1>3, Asking DEF IsPrompt
  <2>2. QED
    BY <1>1, <1>3, <2>1, StepAsked DEF Ask, Alike
<1>4. "NONE" \in Row!PayStatuses /\ \A what : Get(what) = Request(what, "NONE")
  BY DEF Row!PayStatuses, Get
<1>5. CASE SyncTick
  <2>1. CASE page' = [page EXCEPT !.sync = FALSE] /\ UNCHANGED reqs
    <3>1. page' \in Pages /\ Alike(page, page') /\ (Calm(page) => Calm(page'))
      BY <1>1, <2>1 DEF Pages, Alike, Calm
    <3>2. QED
      BY <1>2, <2>1, <3>1
  <2>2. CASE Ask(Get("tick")) /\ UNCHANGED page
    BY <1>1, <1>3, <1>4, <2>2 DEF Alike
  <2>3. QED
    BY <1>5, <2>1, <2>2 DEF SyncTick
<1>6. CASE PollerSees
  <2>1. page' = [page EXCEPT !.poller = pay[Trip].st] /\ UNCHANGED reqs
        /\ pay[Trip].st \in Terminal
    BY <1>6 DEF PollerSees
  <2>2. page' \in Pages /\ Alike(page, page') /\ (Calm(page) => Calm(page'))
    BY <1>1, <2>1 DEF Pages, Alike, Calm
  <2>3. QED
    BY <1>2, <2>1, <2>2
<1>7. CASE PollerReturns
  <2>1. /\ page' = [page EXCEPT !.poller = "none"] /\ page.poller \in Terminal
        /\ UNCHANGED reqs \/ Ask(Request("reconcile", page.poller))
    BY <1>7 DEF PollerReturns
  <2>2. page' \in Pages /\ Alike(page, page') /\ (Calm(page) => Calm(page'))
    BY <1>1, <2>1 DEF Pages, Alike, Calm
  <2>3. page.poller \in Row!PayStatuses /\ page.poller # "PROCESSING"
    BY <2>1 DEF Terminal, Row!PayStatuses
  <2>4. QED
    BY <1>2, <1>3, <2>1, <2>2, <2>3
<1>8. CASE PollerGivesUp
  <2>1. page' = [page EXCEPT !.poller = "none"] /\ UNCHANGED reqs
    BY <1>8 DEF PollerGivesUp
  <2>2. page' \in Pages /\ Alike(page, page') /\ (Calm(page) => Calm(page'))
    BY <1>1, <2>1 DEF Pages, Alike, Calm
  <2>3. QED
    BY <1>2, <2>1, <2>2
<1>9. CASE RidePoll
  <2>1. CASE /\ page.ridePolls < MaxRidePolls /\ Ask(Get("poll"))
             /\ page' = [page EXCEPT !.ridePoll = FALSE, !.ridePolls = @ + 1]
    <3>1. page.ridePolls + 1 \in 0 .. MaxRidePolls
      BY <1>1, <2>1, TripPageAssumption DEF Pages
    <3>2. page' \in Pages /\ Alike(page, page') /\ (Calm(page) => Calm(page'))
      BY <1>1, <2>1, <3>1 DEF Pages, Alike, Calm
    <3>3. QED
      BY <1>3, <1>4, <2>1, <3>2
  <2>2. CASE page' = [page EXCEPT !.ridePoll = FALSE] /\ UNCHANGED reqs
    <3>1. page' \in Pages /\ Alike(page, page') /\ (Calm(page) => Calm(page'))
      BY <1>1, <2>2 DEF Pages, Alike, Calm
    <3>2. QED
      BY <1>2, <2>2, <3>1
  <2>3. QED
    BY <1>9, <2>1, <2>2 DEF RidePoll
<1>10. CASE HalfMinute
  <2> DEFINE offered == page.resend \/ page.grace
             p == [page EXCEPT !.since = "past", !.grace = FALSE, !.failedDelay = FALSE,
                               !.resend = offered]
  <2>1. /\ UNCHANGED reqs
        /\ page' = IF page.failedDelay /\ p.pay # "COMPLETED"
                   THEN WithTerminal(p, "FAILED") ELSE p
    BY <1>10 DEF HalfMinute
  <2>2. offered \in BOOLEAN
    BY <1>1 DEF Pages
  <2> HIDE DEF offered
  <2>3. p \in Pages /\ Alike(page, p) /\ (Calm(page) => Calm(p))
    BY <1>1, <2>2 DEF Pages, Alike, Calm
  <2> HIDE DEF p
  <2>4. "FAILED" \in Row!PayStatuses
    BY DEF Row!PayStatuses
  <2>5. WithTerminal(p, "FAILED") \in Pages /\ Alike(p, WithTerminal(p, "FAILED"))
    BY <2>3, <2>4, TerminalShown
  <2>6. page' \in Pages /\ Alike(page, page') /\ (Calm(page) => Calm(page'))
    BY <2>1, <2>3, <2>5 DEF Alike, Calm
  <2>7. QED
    BY <1>2, <2>1, <2>6
<1>11. QED
  BY <1>5, <1>6, <1>7, <1>8, <1>9, <1>10 DEF Timers

(* The passenger presses something, or leaves.                             *)
LEMMA StepUser ==
    ASSUME PromptInv, User
    PROVE  PromptInv'
<1>1. page \in Pages /\ events \in Seq(PageEvents) /\ PageShapes
  BY DEF PromptInv, PageShapes
<1>2. /\ "NONE" \in Row!PayStatuses
      /\ \A what \in {"initiate", "resend", "refresh", "cancel", "rate"} :
            /\ Get(what) \in PageRequests /\ Get(what).at = "sent" /\ Blank(Get(what))
            /\ IsPrompt(Get(what)) <=> what \in {"initiate", "resend"}
  <2>1. "NONE" \in Row!PayStatuses
    BY DEF Row!PayStatuses
  <2>2. QED
    BY <2>1, Asking DEF IsPrompt
<1>3. CASE Pay \/ Resend
  <2>1. /\ UNCHANGED <<trip, pay, events>> /\ ~page.paying
        /\ Ask(Get("initiate")) \/ Ask(Get("resend"))
        /\ \/ page' = [page EXCEPT !.paying = TRUE]
           \/ page' = [page EXCEPT !.paying = TRUE, !.sync = FALSE, !.poller = "none"]
    BY <1>3 DEF Pay, Resend
  <2>2. page' \in Pages /\ page'.paying
    BY <1>1, <2>1 DEF Pages
  <2>3. QED
    BY <1>1, <1>2, <2>1, <2>2, StepAsked DEF Ask
<1>4. CASE Refresh \/ Cancel \/ Rate
  <2>1. /\ UNCHANGED <<trip, pay, events>>
        /\ Ask(Get("refresh")) \/ Ask(Get("cancel")) \/ Ask(Get("rate"))
        /\ \/ page' = [page EXCEPT !.refreshing = TRUE]
           \/ page' = [page EXCEPT !.cancelling = TRUE]
           \/ page' = page
    BY <1>4 DEF Refresh, Cancel, Rate
  <2>2. /\ page' \in Pages /\ page'.paying = page.paying /\ page'.refused = page.refused
        /\ Calm(page) => Calm(page')
    BY <1>1, <2>1 DEF Pages, Calm
  <2>3. QED
    BY <1>1, <1>2, <2>1, <2>2, StepAsked DEF Ask
<1>5. CASE Leave
  <2>1. /\ page' = [Loading EXCEPT !.st = "closed"] /\ UNCHANGED <<trip, pay>>
        /\ reqs' = <<>> /\ events' = <<>>
    BY <1>5 DEF Leave
  <2>2. page' \in Pages /\ Calm(page')
    <3>1. 0 \in 0 .. MaxRidePolls
      BY TripPageAssumption
    <3>2. QED
      BY <2>1, <3>1 DEF Loading, Pages, Statuses, Row!PayStatuses, Calm
  <2>3. reqs' \in Seq(PageRequests) /\ events' \in Seq(PageEvents) /\ DOMAIN reqs' = {}
    BY <2>1
  <2>4. QED
    BY <1>1, <2>1, <2>2, <2>3 DEF PromptInv, PageShapes, QueueInv, OnePrompt, HasPrompt,
       InTurn, FailuresAreOld, Calm
<1>6. QED
  BY <1>3, <1>4, <1>5 DEF User

LEMMA InitPrompt == PageInit => PromptInv
<1> SUFFICES ASSUME PageInit PROVE PromptInv
  OBVIOUS
<1>1. page \in Pages /\ Calm(page)
  BY TripPageAssumption DEF PageInit, Loading, Pages, Statuses, Row!PayStatuses, Calm
<1>2. trip \in Statuses /\ pay \in [{Trip} -> Row!PayRows]
  BY DEF PageInit, Statuses, Row!NoPay, Row!PayRows, Row!PayStatuses, Row!PayMethods
<1>3. "NONE" \in Row!PayStatuses
  BY DEF Row!PayStatuses
<1>4. /\ Get("init") \in PageRequests /\ Get("init").at = "sent" /\ Blank(Get("init"))
      /\ ~IsPrompt(Get("init"))
  BY <1>3, Asking DEF IsPrompt
<1>5. /\ reqs = <<Get("init")>> /\ reqs \in Seq(PageRequests)
      /\ \A i \in DOMAIN reqs : reqs[i] = Get("init")
  BY <1>4 DEF PageInit
<1>6. events \in Seq(PageEvents)
  BY DEF PageInit
<1>7. OnePrompt(reqs) /\ InTurn(reqs) /\ ~HasPrompt(reqs) /\ FailuresAreOld(reqs)
  BY <1>4, <1>5 DEF OnePrompt, InTurn, HasPrompt, FailuresAreOld
<1>8. QED
  BY <1>1, <1>2, <1>5, <1>6, <1>7 DEF PromptInv, PageShapes, QueueInv

LEMMA StepPrompted ==
    ASSUME ~Overtake, PromptInv, [PageNext]_pageVars
    PROVE  PromptInv'
<1>1. CASE UNCHANGED pageVars
  BY <1>1 DEF pageVars, PromptInv, PageShapes, QueueInv, OnePrompt, HasPrompt, InTurn,
     FailuresAreOld, Behind, Calm, Prompted
<1>2. QED
  BY <1>1, StepServer, StepReply, StepEvent, StepTimers, StepUser DEF PageNext

(* FailureIsOfLastPrompt, when replies come in the order in which the      *)
(* requests were sent, for either page, any number of requests and events  *)
(* in flight, whatever fails: a FAILED that is on the page, with no prompt *)
(* being asked for and none refused, is that of the last prompt            *)
(* (resendPayment, reconcileMpesaTerminalFromServer,                       *)
(* tickMpesaProcessingHttpSync and applyPaymentTerminal of the trip        *)
(* pages).                                                                 *)
THEOREM LastPromptsFailure ==
    ASSUME ~Overtake
    PROVE  PageSpec => []FailureIsOfLastPrompt
<1>1. PromptInv /\ [PageNext]_pageVars => PromptInv'
  BY StepPrompted
<1>2. PromptInv => FailureIsOfLastPrompt
  BY DEF PromptInv, FailureIsOfLastPrompt, Prompted, Calm
<1>3. QED
  BY <1>1, <1>2, InitPrompt, PTL DEF PageSpec
=============================================================================
