------------------------ MODULE PaymentsProperties ------------------------
(***************************************************************************)
(* What PaymentsService should guarantee to passenger, rider and company.  *)
(***************************************************************************)
EXTENDS Payments

(* The tables and the handlers hold values of their types.                 *)
TypeOK ==
    /\ pay \in [Trips -> Rows]
    /\ push \in [Pushes -> [trip : Trips \cup {None}, st : PushStates, success : BOOLEAN]]
    /\ hooks \in SUBSET Deliveries
    /\ recent \in SUBSET Trips
    /\ h \in [Procs -> HandlerRecords]

(* A trip and the prompts whose account reference reads as its own would.  *)
SameReference(u, t) == push[u].trip \in Trips /\ Prefix[push[u].trip] = Prefix[t]
Reported(u, t) == push[u].success /\ SameReference(u, t)

(* A row COMPLETED by M-Pesa carries the receipt of a prompt whose success *)
(* the provider reported, for this trip or one whose reference reads the   *)
(* same, whatever prompts, retries, webhooks and background failures       *)
(* overlap: no call ever settles the payment of a trip it does not name,   *)
(* and a row that was COMPLETED and is so again has a receipt again.       *)
CompletedIsReported ==
    \A t \in Trips :
        pay[t].st = "COMPLETED" /\ pay[t].method = "MPESA"
            => \E u \in Pushes : pay[t].receipt = u /\ Reported(u, t)

Confirmed(u, t) == push[u].trip = t /\ push[u].st = "paid"

(* The payments service keeps the promise the trip handlers rely on: with  *)
(* one handler at a time on a trip's payment a COMPLETED row is final.     *)
KeepsRowPromise == Row!RowSpec

(* Money a customer sent is seen if the call that tells of it nests the    *)
(* account reference: the trip's payment gets COMPLETED, also when a       *)
(* resend has replaced the id of the prompt they confirmed or the call     *)
(* names none of the stored ids.  Without the reference such a call is     *)
(* answered and gone.  True of one handler at a time when no call fails    *)
(* and no other prompt of the trip is refused.                             *)
PaidSettles ==
    \A u \in Pushes, t \in Trips :
        Confirmed(u, t) /\ <<u, "success", TRUE>> \in hooks
            ~> \/ pay[t].st = "COMPLETED"
               \/ \E v \in Pushes : push[v].trip = t /\ push[v].st = "refused"

-----------------------------------------------------------------------------
(* What documents and comments say.                                        *)

(* "Already completed payment | Skipped": COMPLETED is final.              *)
CompletedIsFinal ==
    [][\A t \in Trips : pay[t].st = "COMPLETED" => pay'[t].st = "COMPLETED"]_pay

(* "If payment lookup fails (e.g. ID mismatch), Lipana will retry": money  *)
(* a customer sent is seen, whatever becomes of the trip's other prompts.  *)
PaidIsNeverLost ==
    \A u \in Pushes, t \in Trips :
        Confirmed(u, t) ~> pay[t].st = "COMPLETED"

(* "does not mark COMPLETED on transaction.success (STK dispatch, not      *)
(* customer paid)": a COMPLETED row is of a prompt its payer confirmed.    *)
CompletedMeansPaid ==
    \A t \in Trips :
        pay[t].st = "COMPLETED" /\ pay[t].method = "MPESA"
            => \E u \in Pushes : pay[t].receipt = u /\ push[u].st = "paid"

(* "match by that stable reference": a COMPLETED row is of a prompt for    *)
(* this very trip.                                                         *)
CompletedIsOwn ==
    \A t \in Trips :
        pay[t].st = "COMPLETED" /\ pay[t].method = "MPESA"
            => \E u \in Pushes : pay[t].receipt = u /\ push[u].trip = t
=============================================================================
