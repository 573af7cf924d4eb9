------------------------- MODULE PayoutsProperties -------------------------
(***************************************************************************)
(* What a withdrawal should guarantee to the rider and to the company.     *)
(***************************************************************************)
EXTENDS Payouts, Functions

(* Every table and handler holds values of its type; a balance is never    *)
(* below zero, however many withdrawals of one rider overlap.              *)
TypeOK ==
    /\ balance \in [Riders -> Nat]
    /\ earned \in [Riders -> Nat]
    /\ payout \in [Ids -> PayoutRows]
    /\ sent \in SUBSET Ids
    /\ h \in [Procs -> HandlerRecords]

(* The slip a row of the table stands for.                                 *)
SlipOf(row) ==
    [st |-> CASE row.st = "NONE" -> "none"
              [] row.st \in {"PENDING", "PROCESSING"} -> "open"
              [] row.st = "COMPLETED" -> "paid"
              [] OTHER -> "returned",
     rider |-> row.riderId, amount |-> row.amount, desk |-> row.method = "BANK"]

Slips == INSTANCE Withdrawals
           WITH NoOne <- None,
                funds <- balance, slip <- [o \in Ids |-> SlipOf(payout[o])]

(* Reserve, send, complete and refund together implement withdrawals that  *)
(* are paid or given back, wherever a handler dies: those by M-Pesa once,  *)
(* whatever overlaps, and those that admins end, whose updates overlap, no *)
(* earlier than they were opened, with the amount and for the rider of the *)
(* opening.                                                                *)
KeepsWithdrawalPromise == Slips!SlipsSpec

OutOf(k) == {o \in Ids : /\ payout[o].riderId = k
                         /\ payout[o].st \in {"PENDING", "PROCESSING", "COMPLETED"}}

TakenFrom(k) == SumFunctionOnSet([o \in Ids |-> payout[o].amount], OutOf(k))

(* A rider never loses money, however requests and admins overlap and      *)
(* handlers die: what was ever earned is still held, under way or paid out *)
(* (two admins who reject one payout only give too much).                  *)
NobodyLoses ==
    \A k \in Riders : earned[k] <= balance[k] + TakenFrom(k)

(* What the books of a rider have beyond what he ever earned.              *)
Surplus(k) == balance[k] + TakenFrom(k) - earned[k]

(* An admin ends a payout of the rider that another ended before.          *)
EndedAgain(k) ==
    \E p \in Procs :
        /\ At(p, "admin.update") /\ h[p].rider = k
        /\ payout[h[p].payout].st \in {"COMPLETED", "REJECTED"}
        /\ h'[p] = Idle

(* No money appears either: trips, withdrawals, transfers, refunds and the *)
(* first update of an admin move money between what a rider holds, what is *)
(* under way and what was paid out, and the sum stays what was earned.     *)
(* Only an update of a payout that was ended since it was read breaks it.  *)
BooksBalance ==
    [][\A k \in Riders : Surplus(k)' # Surplus(k) => EndedAgain(k)]_vars

(* Money that Lipana transferred is not given back as well, when only      *)
(* transfers that were not made go unanswered: the record of a transfer    *)
(* whose answer cannot be used stays PROCESSING, out of the admins' reach. *)
SentIsNotGivenBack ==
    ~LostAnswers => \A o \in sent : payout[o].st \in {"PROCESSING", "COMPLETED"}

-----------------------------------------------------------------------------
(* What the code says of itself.                                           *)

(* "Only pending payouts can be updated": an ended payout stays as it is.  *)
EndedIsFinal ==
    [][\A o \in Ids :
          payout[o].st \in {"COMPLETED", "FAILED", "REJECTED"}
              => payout'[o].st = payout[o].st]_payout
=============================================================================
