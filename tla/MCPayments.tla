---------------------------- MODULE MCPayments ----------------------------
(* Small instances of Payments for TLC.                                    *)
EXTENDS PaymentsProperties, LipanaWebhookProperties, TLC

CONSTANTS t1, t2, u1, u2, u3, p1, p2, i1, i2

OwnPrefix == [t \in Trips |-> t]
SharedPrefix == [t \in Trips |-> "c1234567"]
Symmetry == Permutations(Pushes) \cup Permutations(Procs)
TripSymmetry == Symmetry \cup Permutations(Trips)

(* Samples of webhook calls: every event with every status, and bodies     *)
(* with every choice of two ids for their id fields.                       *)
SampleCall ==
    [event |-> "payment.success", status |-> Absent, resultCode |-> Absent,
     amount |-> 100, ids |-> [f \in IdFields |-> NoId], wrapped |-> TRUE,
     age |-> 0, signed |-> "raw body"]
ByLabels ==
    {[SampleCall EXCEPT !.event = ev, !.status = st, !.resultCode = rc,
                        !.ids["id"] = CHOOSE i \in Ids : TRUE] :
        ev \in EventNames, st \in Fields, rc \in Fields}
Unreadable ==
    LET c == CHOOSE c \in ByLabels : StatusOf(c) = "success"
    IN  {c, [c EXCEPT !.age = -1], [c EXCEPT !.age = 25], [c EXCEPT !.signed = "neither"],
         [c EXCEPT !.amount = -1], [c EXCEPT !.ids["id"] = NoId]}
ByIds ==
    {[SampleCall EXCEPT !.ids = f, !.wrapped = b] :
        f \in [IdFields -> Ids \cup {NoId}], b \in BOOLEAN}

ASSUME WebhookReading ==
    /\ \A ev \in EventNames, st \in Statuses : SettlesByBoth(ev, st) /\ IgnoredReports(ev, st)
    /\ \A c \in ByLabels : ResultCodeDecides(c)
    /\ \A c \in ByIds : RepeatFindsItsRow(c)
    /\ \A c \in ByLabels \cup Unreadable, row \in {"PROCESSING", "FAILED", "COMPLETED"} :
          CompletesOnlyIfSettled(c, row)

(* The calls Payments names "success" and "failed" are read as such.       *)
ASSUME PaymentsEvents ==
    /\ \A ev \in SettlementEvents, st \in SettlementStatuses : Verdict(ev, st) = "COMPLETED"
    /\ \A ev \in FailureEvents, st \in Statuses : Verdict(ev, st) = "FAILED"
=============================================================================
