--------------------------- MODULE LipanaWebhook ---------------------------
(***************************************************************************)
(* What PaymentsService makes of the body of one webhook call: the pure    *)
(* part of handleLipanaWebhook with LipanaWebhookService.  Payments takes  *)
(* over where a call has been read: its events "success" and "failed" are  *)
(* the calls of which Verdict says COMPLETED and FAILED.                   *)
(*                                                                         *)
(* The spellings of a field that are looked up next to each other are one  *)
(* field here, labels are in the normal form the code gives them (lower    *)
(* case, one dot between words), and ids are strings that are not blank.   *)
(***************************************************************************)
EXTENDS Integers, Sequences

CONSTANTS
    Ids,    \* transaction, checkout and receipt ids
    NoId    \* a field that is missing, blank or of another type

ASSUME WebhookAssumption == NoId \notin Ids

(* The labels the code knows, and some it has to read by their wording.    *)
SettlementEvents ==
    {"payment.success", "transaction.success", "payment.completed",
     "transaction.completed", "payment.paid", "transaction.paid"}
FailureEvents ==
    {"payment.failed", "transaction.failed", "payment.cancelled",
     "transaction.cancelled"}
PendingEvents == {"payment.pending", "transaction.pending", "payout.initiated"}
OtherEvents == {"charge.success", "charge.failed", "charge.created"}
EventNames == SettlementEvents \cup FailureEvents \cup PendingEvents \cup OtherEvents

SpeaksOfSuccess(ev) ==
    ev \in {"payment.success", "transaction.success", "payment.completed",
            "transaction.completed", "charge.success"}
SpeaksOfFailure(ev) == ev \in FailureEvents \cup {"charge.failed"}

SettlementStatuses ==
    {"success", "completed", "successful", "paid", "succeeded", "complete",
     "processing"}
Statuses == SettlementStatuses \cup {"failed", "pending", "0", "cancelled"}

(* A JSON field: missing or null, a word, a number, or anything else (the  *)
(* empty string too).                                                      *)
Absent == [kind |-> "absent"]
Blank == [kind |-> "blank"]
Text(s) == [kind |-> "text", text |-> s]
Number(n) == [kind |-> "number", number |-> n]
ResultCodes == {0, 1, 1032}
Fields == {Absent, Blank} \cup {Text(s) : s \in Statuses} \cup {Number(n) : n \in ResultCodes}

IdFields ==
    {"transactionId", "mpesaReceiptNumber", "receipt", "id", "nested",
     "checkout", "merchant", "reference"}

(* nested is TRUE of a body with a data object, FALSE of a flat one; age   *)
(* is the distance of its timestamp from now in hours, -1 if it has none.  *)
Calls ==
    [event : EventNames, status : Fields, resultCode : Fields, amount : Int,
     ids : [IdFields -> Ids \cup {NoId}], wrapped : BOOLEAN, age : {-1} \cup Nat,
     signed : {"raw body", "parsed body", "neither"}]

-----------------------------------------------------------------------------
(* verifySignature on the raw body, then on the parsed one; the time       *)
(* window; parseWebhookPayload.                                            *)

Genuine(c) == c.signed \in {"raw body", "parsed body"}

Timely(c) == c.age <= 24

FirstId(c, fields) ==
    LET given == {i \in DOMAIN fields : c.ids[fields[i]] # NoId}
    IN  IF given = {} THEN NoId
        ELSE c.ids[fields[CHOOSE i \in given : \A j \in given : i <= j]]

TransactionId(c) ==
    FirstId(c, <<"transactionId", "mpesaReceiptNumber", "receipt", "id", "nested",
                 "checkout", "merchant", "reference">>)

CheckoutRequestId(c) == FirstId(c, <<"checkout", "merchant", "reference">>)

Parses(c) == TransactionId(c) # NoId /\ c.amount >= 0

(* ResultCode counts only where no status field is present at all.         *)
RawStatus(c) == IF c.status = Absent THEN c.resultCode ELSE c.status

WordedStatus(ev) ==
    IF SpeaksOfSuccess(ev) THEN "success"
    ELSE IF SpeaksOfFailure(ev) THEN "failed" ELSE "pending"

StatusOf(c) ==
    LET raw == RawStatus(c)
    IN  CASE raw.kind = "text"   -> raw.text
          [] raw.kind = "number" -> IF raw.number = 0 THEN "success" ELSE "failed"
          [] OTHER               -> WordedStatus(c.event)

LookupFields == {"mpesaReceiptNumber", "receipt", "checkout", "reference", "nested"}

(* The ids the row is looked up by.  A flat body gives only the two that   *)
(* parseWebhookPayload returns.                                            *)
LookupIds(c) ==
    LET named == IF c.wrapped THEN {c.ids[f] : f \in LookupFields} ELSE {}
    IN  ({TransactionId(c), CheckoutRequestId(c)} \cup named) \ {NoId}

(* The receipt a settled row gets.                                         *)
ReceiptOf(c) ==
    IF c.wrapped /\ c.ids["mpesaReceiptNumber"] # NoId
    THEN c.ids["mpesaReceiptNumber"] ELSE TransactionId(c)

-----------------------------------------------------------------------------
(* The branch taken, of which the code tests the failure first.            *)

IsFailed(ev, st) ==
    ev \in FailureEvents \/ (st = "failed" /\ ev \notin SettlementEvents)

IsPending(ev, st) ==
    \/ ev \in PendingEvents
    \/ st = "pending" /\ ev \notin SettlementEvents \cup FailureEvents

IsSettled(ev, st) ==
    ev \in SettlementEvents /\ ~IsFailed(ev, st) /\ st \in SettlementStatuses

Verdict(ev, st) ==
    CASE IsFailed(ev, st) -> "FAILED"
      [] ~IsFailed(ev, st) /\ IsPending(ev, st) -> "PROCESSING"
      [] ~IsFailed(ev, st) /\ ~IsPending(ev, st) /\ IsSettled(ev, st) -> "COMPLETED"
      [] OTHER -> "none"

(* What the call does to a row it matched: nothing to a COMPLETED one.     *)
RowAfter(c, row) ==
    LET verdict == Verdict(c.event, StatusOf(c))
    IN  IF \/ ~Genuine(c) \/ ~Timely(c) \/ ~Parses(c)
           \/ row = "COMPLETED" \/ verdict \in {"none", "PROCESSING"}
        THEN row ELSE verdict
=============================================================================
