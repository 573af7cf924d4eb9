----------------------- MODULE PaymentGuardsProperties -----------------------
(***************************************************************************)
(* What the guards in front of the provider promise.                       *)
(***************************************************************************)
EXTENDS PaymentGuards

(* The maps and counters have their shapes, and no age or counter passes   *)
(* the value at which the code's comparisons have all been decided.        *)
TypeOK ==
    /\ recent \in [Payers -> 0 .. Window \cup {None}]
    /\ attempts \in [Payers -> [count : 1 .. MaxFailed, age : 0 .. FailedWindow + 1]
                                  \cup {None}]
    /\ breaker \in [st : {"CLOSED", "OPEN", "HALF_OPEN"}, failures : 0 .. Threshold,
                    age : 0 .. Timeout + 1]
    /\ payment \in [Payers -> [st : RowStatuses, method : Methods, phone : Phones]]
    /\ req \in [Requests -> RequestRecords]
    /\ streak \in 0 .. Threshold

(* The state of the breaker and its counter tell the same story, whatever  *)
(* order late successes, late failures and trials report in: it is closed  *)
(* exactly when fewer than the threshold's failures have been counted      *)
(* since the last success (recordCircuitSuccess, recordCircuitFailure).    *)
BreakerAgrees == breaker.st = "CLOSED" <=> breaker.failures < Threshold

(* A lock ends by itself.  A payer who keeps trying while locked out does  *)
(* not prolong the lock (the catch block of initiatePayment lets a         *)
(* ForbiddenException pass uncounted), and the requests that were already  *)
(* past the check are too few to.                                          *)
LockoutEnds == \A u \in Payers : LockedOut(u) ~> ~LockedOut(u)

(* So does the pause of an open breaker: the requests it refuses are not   *)
(* failures of the provider, and pushes still under way come to an end.    *)
OutageEnds == Blocked ~> ~Blocked

(* As many failed pushes in a row as the threshold says open the breaker   *)
(* ("5 consecutive Lipana failures").                                      *)
OpensAfterFailures == streak >= Threshold => breaker.st # "CLOSED"
=============================================================================
