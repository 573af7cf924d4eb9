--------------------------- MODULE PaymentGuards ---------------------------
(***************************************************************************)
(* The guards PaymentsService keeps in memory in front of the provider:    *)
(* the idempotency window, the count of failed attempts that locks a payer *)
(* out, and the circuit breaker; with the handlers that consult and feed   *)
(* them, initiatePayment and resendPayment.                                *)
(*                                                                         *)
(* A timestamp is modelled by its age, which grows with every Tick and     *)
(* stops at the first age at which all the code's comparisons agree with   *)
(* those at any greater one.  The two counters stop at their limits for    *)
(* the same reason.  Every payer has one trip to pay for.                  *)
(***************************************************************************)
EXTENDS Naturals

CONSTANTS
    Payers,
    Requests,      \* requests at work at the same time
    None,          \* no entry in a map
    Window,        \* IDEMPOTENCY_WINDOW_MS, in ticks
    MaxFailed,     \* MAX_FAILED_ATTEMPTS
    FailedWindow,  \* FAILED_ATTEMPT_WINDOW_MS, in ticks
    Threshold,     \* circuitBreaker.threshold
    Timeout        \* circuitBreaker.timeout, in ticks

ASSUME GuardsAssumption ==
    /\ {Window, MaxFailed, FailedWindow, Threshold, Timeout} \subseteq Nat \ {0}
    /\ None \notin Payers /\ None \notin Nat

VARIABLES
    recent,    \* recentRequests: age of the payer's last request, or None
    attempts,  \* failedAttempts: [count, age], or None
    breaker,   \* circuitBreaker: [st, failures, age of lastFailureTime]
    payment,   \* the payment row of the payer's trip
    req,       \* the requests at work
    streak     \* history: pushes that failed since one succeeded

vars == <<recent, attempts, breaker, payment, req, streak>>

Least(m, n) == IF m <= n THEN m ELSE n

Places == {"idle", "trip", "create", "update", "push", "markFailed"}
Methods == {"MPESA", "CASH"}
Phones == {"good", "malformed", "missing"}
RowStatuses == {"NONE", "PROCESSING", "FAILED", "COMPLETED"}

RequestRecords == [pc : Places, payer : Payers \cup {None}, method : Methods,
                   phone : Phones, counts : BOOLEAN, background : BOOLEAN]

Idle == [pc |-> "idle", payer |-> None, method |-> "MPESA", phone |-> "missing",
         counts |-> FALSE, background |-> FALSE]

NoRow == [st |-> "NONE", method |-> "MPESA", phone |-> "missing"]

At(q, pc) == req[q].pc = pc
Goto(q, pc) == req' = [req EXCEPT ![q].pc = pc]
Return(q) == req' = [req EXCEPT ![q] = Idle]

NewBreaker == [st |-> "CLOSED", failures |-> 0, age |-> Timeout + 1]

Init ==
    /\ recent = [u \in Payers |-> None]
    /\ attempts = [u \in Payers |-> None]
    /\ breaker = NewBreaker
    /\ payment = [u \in Payers |-> NoRow]
    /\ req = [q \in Requests |-> Idle]
    /\ streak = 0

-----------------------------------------------------------------------------
(* The breaker                                                             *)

(* checkCircuitBreaker refuses.                                            *)
Blocked == breaker.st = "OPEN" /\ breaker.age <= Timeout

(* checkCircuitBreaker lets through; after the pause as a trial.           *)
CheckCircuitBreaker ==
    /\ ~Blocked
    /\ breaker' = IF breaker.st = "OPEN" THEN [breaker EXCEPT !.st = "HALF_OPEN"]
                                         ELSE breaker

(* Mutant: a trial's success leaves the failures counted.                  *)
ForgetsNothing == [breaker EXCEPT !.st = "CLOSED"]

AfterSuccess == [breaker EXCEPT !.st = "CLOSED", !.failures = 0]

AfterFailure ==
    LET n == Least(breaker.failures + 1, Threshold)
    IN  [st |-> IF n >= Threshold THEN "OPEN" ELSE breaker.st,
         failures |-> n, age |-> 0]

-----------------------------------------------------------------------------
(* The lock                                                                *)

LockedOut(u) ==
    /\ attempts[u] # None
    /\ attempts[u].age <= FailedWindow
    /\ attempts[u].count >= MaxFailed

(* checkFraudDetection lets through, forgetting an entry too old to count. *)
CheckFraudDetection(u) ==
    /\ ~LockedOut(u)
    /\ attempts' = IF attempts[u] # None /\ attempts[u].age > FailedWindow
                   THEN [attempts EXCEPT ![u] = None] ELSE attempts

ClearFailedAttempts(u) == attempts' = [attempts EXCEPT ![u] = None]

RecordFailedAttempt(u) ==
    LET before == IF attempts[u] = None \/ attempts[u].age > FailedWindow
                  THEN 0 ELSE attempts[u].count
    IN  attempts' = [attempts EXCEPT ![u] =
                        [count |-> Least(before + 1, MaxFailed), age |-> 0]]

-----------------------------------------------------------------------------
(* initiatePayment                                                         *)

(* Mutants: the catch block counts the refusals too; a refusal of the      *)
(* breaker is one more failure of the provider.                            *)
RefusalCounts(u) ==
    /\ ~Blocked /\ LockedOut(u)
    /\ RecordFailedAttempt(u)
    /\ breaker' = breaker
    /\ UNCHANGED <<recent, payment, req, streak>>

BlockedCounts(u) ==
    /\ Blocked
    /\ breaker' = AfterFailure
    /\ UNCHANGED <<recent, attempts, payment, req, streak>>

(* Refused by the breaker: an InternalServerErrorException, not counted.   *)
InitiateBlocked(u) ==
    /\ Blocked
    /\ UNCHANGED vars

(* Let through by the breaker, and then refused as a suspected fraud: a    *)
(* ForbiddenException, not counted either.                                 *)
InitiateForbidden(u) ==
    /\ CheckCircuitBreaker
    /\ LockedOut(u)
    /\ UNCHANGED <<recent, attempts, payment, req, streak>>

InitiateStart(q, u, m, phone) ==
    /\ At(q, "idle")
    /\ CheckCircuitBreaker
    /\ CheckFraudDetection(u)
    /\ req' = [req EXCEPT ![q] = [Idle EXCEPT !.pc = "trip", !.payer = u, !.method = m,
                                              !.phone = phone, !.counts = TRUE]]
    /\ UNCHANGED <<recent, payment, streak>>

(* No such trip, not the caller's, or a fare that cannot be charged.       *)
InitiateBadTrip(q) ==
    /\ At(q, "trip")
    /\ RecordFailedAttempt(req[q].payer)
    /\ Return(q)
    /\ UNCHANGED <<recent, breaker, payment, streak>>

(* The search for a payment under way, and the test and set of the window  *)
(* that follow it without another await.                                   *)
InitiateExisting(q) ==
    /\ At(q, "trip")
    /\ payment[req[q].payer].st = "PROCESSING"
    /\ Return(q)
    /\ UNCHANGED <<recent, attempts, breaker, payment, streak>>

IsDuplicateRequest(u) == recent[u] # None /\ recent[u] < Window

InitiateDuplicate(q) ==
    /\ At(q, "trip")
    /\ payment[req[q].payer].st # "PROCESSING"
    /\ IsDuplicateRequest(req[q].payer)
    /\ RecordFailedAttempt(req[q].payer)
    /\ Return(q)
    /\ UNCHANGED <<recent, breaker, payment, streak>>

InitiateRecord(q) ==
    /\ At(q, "trip")
    /\ payment[req[q].payer].st # "PROCESSING"
    /\ ~IsDuplicateRequest(req[q].payer)
    /\ recent' = [recent EXCEPT ![req[q].payer] = 0]
    /\ Goto(q, "create")
    /\ UNCHANGED <<attempts, breaker, payment, streak>>

(* The insert.  A trip that has a row answers with a database error.       *)
InitiateRefusedByIndex(q) ==
    /\ At(q, "create")
    /\ payment[req[q].payer].st # "NONE"
    /\ Return(q)
    /\ UNCHANGED <<recent, attempts, breaker, payment, streak>>

InitiateCreate(q) ==
    /\ At(q, "create")
    /\ LET u == req[q].payer
       IN  /\ payment[u].st = "NONE"
           /\ payment' = [payment EXCEPT ![u] =
                              [st |-> "PROCESSING", method |-> req[q].method,
                               phone |-> req[q].phone]]
           /\ \/ req[q].method = "CASH" /\ ClearFailedAttempts(u) /\ Return(q)
              \/ /\ req[q].method = "MPESA" /\ req[q].phone = "missing"
                 /\ RecordFailedAttempt(u) /\ Return(q)
              \/ /\ req[q].method = "MPESA" /\ req[q].phone # "missing"
                 /\ Goto(q, "push") /\ UNCHANGED attempts
    /\ UNCHANGED <<recent, breaker, streak>>

-----------------------------------------------------------------------------
(* resendPayment: its errors are never counted, and it deletes the entry   *)
(* of the window it is about to consult.                                   *)
ResendStart(q, u) ==
    /\ At(q, "idle")
    /\ payment[u].st \in {"PROCESSING", "FAILED"}
    /\ payment[u].method = "MPESA" /\ payment[u].phone # "missing"
    /\ CheckCircuitBreaker
    /\ CheckFraudDetection(u)
    /\ recent' = [recent EXCEPT ![u] = 0]
    /\ req' = [req EXCEPT ![q] = [Idle EXCEPT !.pc = "update", !.payer = u,
                                              !.phone = payment[u].phone]]
    /\ UNCHANGED <<payment, streak>>

ResendUpdate(q) ==
    /\ At(q, "update")
    /\ payment' = [payment EXCEPT ![req[q].payer].st = "PROCESSING"]
    /\ Goto(q, "push")
    /\ UNCHANGED <<recent, attempts, breaker, streak>>

-----------------------------------------------------------------------------
(* performStkPushAndPersistIds, raced by launchStkPushWithTimeout          *)

(* A number of the wrong form is refused before the provider is called.    *)
PushMalformedPhone(q) ==
    /\ At(q, "push") /\ req[q].phone = "malformed"
    /\ IF req[q].counts THEN RecordFailedAttempt(req[q].payer) ELSE UNCHANGED attempts
    /\ Return(q)
    /\ UNCHANGED <<recent, breaker, payment, streak>>

Pushing(q) == At(q, "push") /\ req[q].phone = "good"

PushSucceeds(q) ==
    /\ Pushing(q)
    /\ breaker' = AfterSuccess
    /\ ClearFailedAttempts(req[q].payer)
    /\ Return(q)
    /\ streak' = 0
    /\ UNCHANGED <<recent, payment>>

(* A failure that is answered fails the request.  In the background the    *)
(* row is marked, or cannot be, and then the failure is counted.           *)
FailPush(q) == IF req[q].background THEN Goto(q, "markFailed") ELSE Return(q)

LongerStreak == streak' = Least(streak + 1, Threshold)

(* The provider answers with an error, or cannot be reached.               *)
PushFails(q) ==
    /\ Pushing(q)
    /\ FailPush(q)
    /\ LongerStreak
    /\ UNCHANGED <<recent, attempts, breaker, payment>>

(* The provider's answer lacks the ids.                                    *)
PushAnswerUnusable(q) ==
    /\ Pushing(q)
    /\ breaker' = AfterFailure
    /\ FailPush(q)
    /\ LongerStreak
    /\ UNCHANGED <<recent, attempts, payment>>

(* The twenty seconds are over: the request is answered, the push goes on. *)
PushTimesOut(q) ==
    /\ Pushing(q) /\ ~req[q].background
    /\ req' = [req EXCEPT ![q].background = TRUE]
    /\ UNCHANGED <<recent, attempts, breaker, payment, streak>>

MarkFailed(q) ==
    /\ At(q, "markFailed")
    /\ payment' \in {payment, [payment EXCEPT ![req[q].payer].st = "FAILED"]}
    /\ breaker' = AfterFailure
    /\ Return(q)
    /\ UNCHANGED <<recent, attempts, streak>>

-----------------------------------------------------------------------------
(* The rest of the world                                                   *)

(* A webhook, or the rider who takes cash, settles the row.                *)
Settle(u, st) ==
    /\ payment[u].st = "PROCESSING"
    /\ st = "FAILED" => payment[u].method = "MPESA"
    /\ payment' = [payment EXCEPT ![u].st = st]
    /\ UNCHANGED <<recent, attempts, breaker, req, streak>>

(* A server that restarts forgets the guards and its requests.             *)
Restart ==
    /\ recent' = [u \in Payers |-> None]
    /\ attempts' = [u \in Payers |-> None]
    /\ breaker' = NewBreaker
    /\ req' = [q \in Requests |-> Idle]
    /\ streak' = 0
    /\ UNCHANGED payment

Tick ==
    /\ recent' = [u \in Payers |-> IF recent[u] = None THEN None
                                   ELSE Least(recent[u] + 1, Window)]
    /\ attempts' = [u \in Payers |->
                       IF attempts[u] = None THEN None
                       ELSE [attempts[u] EXCEPT !.age = Least(@ + 1, FailedWindow + 1)]]
    /\ breaker' = [breaker EXCEPT !.age = Least(@ + 1, Timeout + 1)]
    /\ UNCHANGED <<payment, req, streak>>

RequestArrives(u) ==
    \/ InitiateBlocked(u) \/ InitiateForbidden(u)
    \/ \E q \in Requests :
          \/ \E m \in Methods, phone \in Phones : InitiateStart(q, u, m, phone)
          \/ ResendStart(q, u)

RequestStep(q) ==
    \/ InitiateBadTrip(q) \/ InitiateExisting(q) \/ InitiateDuplicate(q)
    \/ InitiateRecord(q) \/ InitiateRefusedByIndex(q) \/ InitiateCreate(q)
    \/ ResendUpdate(q)
    \/ PushMalformedPhone(q) \/ PushSucceeds(q) \/ PushFails(q)
    \/ PushAnswerUnusable(q) \/ PushTimesOut(q) \/ MarkFailed(q)

Next ==
    \/ \E u \in Payers : RequestArrives(u)
    \/ \E q \in Requests : RequestStep(q)
    \/ \E u \in Payers, st \in {"FAILED", "COMPLETED"} : Settle(u, st)
    \/ Restart
    \/ Tick

Spec == Init /\ [][Next]_vars

(* Time passes; nothing is assumed of the payers, and nothing of the       *)
(* provider: a push may hang for ever.                                     *)
FairSpec == Spec /\ WF_vars(Tick)
=============================================================================
