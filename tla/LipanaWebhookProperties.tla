---------------------- MODULE LipanaWebhookProperties ----------------------
(***************************************************************************)
(* What the reading of a webhook call should guarantee, of one call or one *)
(* pair of labels: MCPayments evaluates it on samples of them, and         *)
(* PaymentsProofs proves it of all.                                        *)
(***************************************************************************)
EXTENDS LipanaWebhook

(* A row becomes COMPLETED exactly when the event is one of settlement and *)
(* the status one of success: no word in the status makes a settlement of  *)
(* another event, and no event hides that the status is not a success.     *)
SettlesByBoth(ev, st) ==
    Verdict(ev, st) = "COMPLETED" <=> ev \in SettlementEvents /\ st \in SettlementStatuses

(* The reports nothing is done about, so that the row stays PROCESSING: a  *)
(* settlement whose status is not a success, a failed one included, and an *)
(* unknown event whose status is neither "failed" nor "pending".           *)
IgnoredReports(ev, st) ==
    Verdict(ev, st) = "none"
        <=> \/ ev \in SettlementEvents /\ st \notin SettlementStatuses
            \/ ev \in OtherEvents /\ st \notin {"failed", "pending"}

(* A result code without a status decides an unknown event, whatever its   *)
(* wording; of a settlement it can only hold back.                         *)
ResultCodeDecides(c) ==
    c.status = Absent /\ c.resultCode.kind = "number" =>
        Verdict(c.event, StatusOf(c)) =
            IF c.event \in SettlementEvents
            THEN IF c.resultCode.number = 0 THEN "COMPLETED" ELSE "none"
            ELSE IF c.event \in FailureEvents \/ c.resultCode.number # 0 THEN "FAILED"
            ELSE IF c.event \in PendingEvents THEN "PROCESSING" ELSE "none"

(* A call that parses is looked up by ids it carries, the transaction id   *)
(* among them; the receipt it leaves on a row is another, so that a second *)
(* delivery of the call finds the row that the first settled.              *)
RepeatFindsItsRow(c) ==
    Parses(c) =>
        /\ {TransactionId(c), ReceiptOf(c)} \subseteq LookupIds(c)
        /\ LookupIds(c) \subseteq {c.ids[f] : f \in IdFields} \ {NoId}

(* Only a genuine and timely settlement completes a row, and a COMPLETED   *)
(* row is left alone.                                                      *)
CompletesOnlyIfSettled(c, row) ==
    RowAfter(c, row) = "COMPLETED" <=>
        \/ row = "COMPLETED"
        \/ /\ Genuine(c) /\ Timely(c) /\ Parses(c)
           /\ c.event \in SettlementEvents /\ StatusOf(c) \in SettlementStatuses

-----------------------------------------------------------------------------
(* What a comment says: "Accept both shapes".  Of a flat body fewer ids    *)
(* are looked up, so that a row one shape would find is missed.            *)
ShapesAgree(c) ==
    LookupIds(c) = LookupIds([c EXCEPT !.wrapped = ~@])

(* What a comment says: "Settle when the event is a known success event    *)
(* AND status is not a failure".  False where no status is given and the   *)
(* event speaks of "paid".                                                 *)
SuccessSettles(c) ==
    c.event \in SettlementEvents /\ StatusOf(c) # "failed"
        => Verdict(c.event, StatusOf(c)) = "COMPLETED"
=============================================================================
